---------------------------- MODULE Spec2Model ----------------------------
(***************************************************************************)
(* GammaForge: the notional-gamma aggregator (core/calculator.py), the     *)
(* historical store (data/storage.py) and the contract cache               *)
(* (data/fetcher.py), as state machines.                                   *)
(*                                                                         *)
(* Reals are modelled by integers: gamma, spot and strikes are integer     *)
(* multiples of a unit, percentages are carried as hundredths, a date is a *)
(* day number and a clock reading is a number of seconds.  A data frame is *)
(* a record [cols, rows]: the set of its column names and the sequence of  *)
(* its rows, each row a record over exactly those columns.                 *)
(***************************************************************************)
EXTENDS Integers, Sequences, FiniteSets, TLC

VARIABLES
    \* ---- aggregator (GEXCalculator and its caller's frame)
    option_data,    \* the frame the caller handed over; the calculator keeps a reference to it
    spot_price,     \* GEXCalculator.spot_price
    built,          \* TRUE once GEXCalculator.__init__ has run on option_data
    ncalc,          \* how many times _calculate_notional_gamma has run on option_data
    view,           \* what the last aggregator call returned
    \* ---- calendar and clock
    today,          \* datetime.now() as a day number
    now,            \* datetime.now() as seconds
    \* ---- historical store (the SQLite file)
    daily_gex,      \* table daily_gex: a set of rows
    strike_gex,     \* table strike_gex: a set of rows
    store_op,       \* the last store operation: what it was given, how it ended, what it logged
    intended,       \* date -> what the latest store_daily_snapshot call for it was asked to store
    \* ---- contract cache
    cache_file,     \* content of <ticker>_options.json
    fetch_op,       \* the last get_option_data call: how it ended, what it logged
    \* ---- open-interest flow
    df_yesterday,   \* the second frame handed to compare_oi_changes (the first is option_data)
    \* ---- realtime handler (RealtimeGEXHandler and its two tasks)
    update_queue,   \* RealtimeGEXHandler.update_queue
    running,        \* RealtimeGEXHandler.running
    last_calculation, \* RealtimeGEXHandler.last_calculation, in seconds
    tasks,          \* where start(), _run_websocket and _process_updates stand
    batches,        \* what the trades and the recalculations did so far
    \* ---- concurrent callers of get_option_data
    callers         \* caller -> where its call stands and what it holds

calcVars  == <<option_data, spot_price, built, ncalc, view>>
timeVars  == <<today, now>>
storeVars == <<daily_gex, strike_gex, store_op, intended>>
fetchVars == <<cache_file, fetch_op>>
flowVars  == <<df_yesterday>>
liveVars  == <<update_queue, running, last_calculation, tasks, batches>>
raceVars  == <<callers>>
otherVars == <<flowVars, liveVars, raceVars>>
vars == <<option_data, spot_price, built, ncalc, view, today, now,
          daily_gex, strike_gex, store_op, intended, cache_file, fetch_op,
          df_yesterday, update_queue, running, last_calculation, tasks, batches,
          callers>>

-----------------------------------------------------------------------------
(* Bounds of the model *)

MaxContracts == 2       \* rows of a chain snapshot
MaxCalc == 3            \* runs of _calculate_notional_gamma on one frame

(* Program constants *)

CONTRACT_SIZE == 100    \* calculator.py:13
BandPct == 15           \* utils.py:6, percentage = 0.15, in hundredths
HorizonDays == 365      \* utils.py:24, timedelta(days=365)

(* Value sets of the inputs *)

Types == {"C", "P"}
Strikes == {85, 100, 120}       \* at spot 100: 85 is the lower bound of the 15% band, 120 is outside
Expirations == {30, 400}        \* day numbers: within and beyond the one-year horizon
Gammas == {1, 2}
OpenInterests == {3}
Spots == {100}

RequiredColumns == {"type", "strike", "expiration", "gamma", "open_interest"}

Contracts ==
    [type : Types, strike : Strikes, expiration : Expirations,
     gamma : Gammas, open_interest : OpenInterests]

SeqsUpTo(S, n) == UNION {[1..k -> S] : k \in 0..n}

Frame(cols, rows) == [cols |-> cols, rows |-> rows]

Chains == {Frame(RequiredColumns, rs) : rs \in SeqsUpTo(Contracts, MaxContracts)}

-----------------------------------------------------------------------------
(* Data frame helpers (pandas) *)

RECURSIVE SumSeq(_)
SumSeq(s) == IF s = <<>> THEN 0 ELSE Head(s) + SumSeq(Tail(s))

Abs(x) == IF x < 0 THEN -x ELSE x

\* df[mask]: the rows that satisfy P, in order
Filter(df, P(_)) == Frame(df.cols, SelectSeq(df.rows, P))

\* df[col] as a sequence
Column(df, c) == [i \in 1..Len(df.rows) |-> df.rows[i][c]]

\* df[c] = values (values[i] for row i): adds the column or overwrites it
Assign(df, c, values) ==
    Frame(df.cols \cup {c},
          [i \in 1..Len(df.rows) |->
              [k \in df.cols \cup {c} |-> IF k = c THEN values[i] ELSE df.rows[i][k]]])

\* the sum of column c over the rows with row[k] = v (groupby(k)[c].sum() at key v)
GroupSum(df, k, v, c) ==
    LET sel(r) == r[k] = v IN SumSeq(Column(Filter(df, sel), c))

Keys(df, k) == {df.rows[i][k] : i \in 1..Len(df.rows)}


\* a cell of a pivot table: a number, or not-a-number where no row falls
Cell(x) == [nan |-> FALSE, v |-> x]
NaNCell == [nan |-> TRUE, v |-> 0]

-----------------------------------------------------------------------------
(* core/utils.py *)

\* (lower, upper) = (spot*(1-p), spot*(1+p)), both carried in hundredths
calculate_price_bounds(spot, pct) == <<spot * (100 - pct), spot * (100 + pct)>>

get_one_year_date(day) == day + HorizonDays

-----------------------------------------------------------------------------
(* core/calculator.py: GEXCalculator.  Every method reads self.option_data,  *)
(* which is the caller's frame, and self.spot_price.                         *)

\* the result of a call that may raise: the frame as the call left it, and
\* the exception ("" when it returned)
Outcome(df, err) == [df |-> df, err |-> err]

\* A variant that keeps an existing notional_gamma column instead of
\* recomputing it from gamma before it inverts the puts.
calculate_notional_gamma_compound(df, spot) ==
    IF ~({"gamma", "open_interest"} \subseteq df.cols) THEN Outcome(df, "KeyError")
    ELSE LET base == IF "notional_gamma" \in df.cols
                     THEN Column(df, "notional_gamma")
                     ELSE [i \in 1..Len(df.rows) |->
                              df.rows[i].gamma * CONTRACT_SIZE
                                  * df.rows[i].open_interest * spot]
             d1 == Assign(df, "notional_gamma", base)
         IN  Outcome(Assign(d1, "notional_gamma",
                        [i \in 1..Len(d1.rows) |->
                            IF d1.rows[i].type = "P" THEN d1.rows[i].notional_gamma * (-1)
                            ELSE d1.rows[i].notional_gamma]), "")

\* _calculate_notional_gamma: the column is assigned from gamma (line 31),
\* then the put rows are multiplied by -1 in place (line 39)
calculate_notional_gamma(df, spot) ==
    IF ~({"gamma", "open_interest"} \subseteq df.cols) THEN Outcome(df, "KeyError")
    ELSE LET d1 == Assign(df, "notional_gamma",
                      [i \in 1..Len(df.rows) |->
                          df.rows[i].gamma * CONTRACT_SIZE
                              * df.rows[i].open_interest * spot])
         IN  IF "type" \notin d1.cols THEN Outcome(d1, "KeyError")
             ELSE Outcome(Assign(d1, "notional_gamma",
                            [i \in 1..Len(d1.rows) |->
                                IF d1.rows[i].type = "P"
                                THEN d1.rows[i].notional_gamma * (-1)
                                ELSE d1.rows[i].notional_gamma]), "")

get_total_gex(df) == SumSeq(Column(df, "notional_gamma"))

InBand(r, spot, pct) ==
    LET b == calculate_price_bounds(spot, pct)
    IN  r.strike * 100 >= b[1] /\ r.strike * 100 <= b[2]

\* A variant that groups every row, without the band mask.
get_gex_by_strike_unbanded(df, spot) ==
    [s \in Keys(df, "strike") |-> GroupSum(df, "strike", s, "notional_gamma")]

\* get_gex_by_strike: groupby(strike).sum() over the rows inside the band
get_gex_by_strike(df, spot) ==
    LET mask(r) == InBand(r, spot, BandPct)
        sub == Filter(df, mask)
    IN  [s \in Keys(sub, "strike") |-> GroupSum(sub, "strike", s, "notional_gamma")]

get_gex_by_expiry(df, day) ==
    LET mask(r) == r.expiration <= get_one_year_date(day)
        sub == Filter(df, mask)
    IN  [e \in Keys(sub, "expiration") |-> GroupSum(sub, "expiration", e, "notional_gamma")]

\* A variant whose mask leaves out the expiry horizon (the by-strike mask).
get_gex_surface_band_only(df, spot, day) ==
    LET mask(r) == InBand(r, spot, BandPct)
        sub == Filter(df, mask)
    IN  [e \in Keys(sub, "expiration"), s \in Keys(sub, "strike") |->
            LET at(r) == r.expiration = e /\ r.strike = s
                cell == Filter(sub, at)
            IN  IF cell.rows = <<>> THEN NaNCell
                ELSE Cell(SumSeq(Column(cell, "notional_gamma")))]

\* get_gex_surface: pivot_table(index=expiration, columns=strike, aggfunc=sum)
\* over the rows inside the band and the horizon
get_gex_surface(df, spot, day) ==
    LET mask(r) == InBand(r, spot, BandPct) /\ r.expiration <= get_one_year_date(day)
        sub == Filter(df, mask)
    IN  [e \in Keys(sub, "expiration"), s \in Keys(sub, "strike") |->
            LET at(r) == r.expiration = e /\ r.strike = s
                cell == Filter(sub, at)
            IN  IF cell.rows = <<>> THEN NaNCell
                ELSE Cell(SumSeq(Column(cell, "notional_gamma")))]

\* get_put_call_gex: a dict with the three keys calls, puts, net
get_put_call_gex(df, spot) ==
    LET mask(r) == InBand(r, spot, BandPct)
        sub == Filter(df, mask)
        call_gex == GroupSum(sub, "type", "C", "notional_gamma")
        put_gex == GroupSum(sub, "type", "P", "notional_gamma")
    IN  [calls |-> call_gex, puts |-> put_gex, net |-> call_gex + put_gex]

\* (expiration - datetime.now()).dt.days: expiration is a midnight and now is
\* later in its day, so the whole days between them are one fewer than the
\* difference of the day numbers
DaysToExp(expiration, day) == expiration - day - 1

\* get_weighted_expiration: writes the column days_to_exp into the frame and
\* returns sum(days * |gex|) / sum(|gex|): the quotient as (num, den), or
\* not-a-number when the total is zero
WeightedExpirationFrame(df, day) ==
    Assign(df, "days_to_exp",
           [i \in 1..Len(df.rows) |-> DaysToExp(df.rows[i].expiration, day)])

get_weighted_expiration(df, day) ==
    LET d1 == WeightedExpirationFrame(df, day)
        den == SumSeq([i \in 1..Len(d1.rows) |-> Abs(d1.rows[i].notional_gamma)])
        num == SumSeq([i \in 1..Len(d1.rows) |->
                          d1.rows[i].days_to_exp * Abs(d1.rows[i].notional_gamma)])
    IN  IF den = 0 THEN [nan |-> TRUE, num |-> 0, den |-> 0]
        ELSE [nan |-> FALSE, num |-> num, den |-> den]

-----------------------------------------------------------------------------
(* The aggregator as a state machine: a caller builds a calculator over its  *)
(* frame, possibly again over the same frame, and asks for views.            *)

NoView == [op |-> "none", val |-> 0]
NoStoreOp == [op |-> "none"]
NoFetchOp == [op |-> "none"]

\* GEXCalculator(spot, option_data)
Construct(spot) ==
    /\ ncalc < MaxCalc
    /\ LET r == calculate_notional_gamma(option_data, spot)
       IN  /\ option_data' = r.df
           /\ built' = (r.err = "")
           /\ view' = [op |-> "init", val |-> 0]
    /\ spot_price' = spot
    /\ ncalc' = ncalc + 1
    /\ UNCHANGED <<otherVars, timeVars, storeVars, fetchVars>>

GetTotal ==
    /\ built
    /\ view' = [op |-> "total", val |-> get_total_gex(option_data)]
    /\ UNCHANGED <<otherVars, option_data, spot_price, built, ncalc, timeVars, storeVars, fetchVars>>

GetByStrike ==
    /\ built
    /\ view' = [op |-> "by_strike", val |-> get_gex_by_strike(option_data, spot_price)]
    /\ UNCHANGED <<otherVars, option_data, spot_price, built, ncalc, timeVars, storeVars, fetchVars>>

GetByExpiry ==
    /\ built
    /\ view' = [op |-> "by_expiry", val |-> get_gex_by_expiry(option_data, today)]
    /\ UNCHANGED <<otherVars, option_data, spot_price, built, ncalc, timeVars, storeVars, fetchVars>>

GetSurface ==
    /\ built
    /\ view' = [op |-> "surface", val |-> get_gex_surface(option_data, spot_price, today)]
    /\ UNCHANGED <<otherVars, option_data, spot_price, built, ncalc, timeVars, storeVars, fetchVars>>

GetPutCall ==
    /\ built
    /\ view' = [op |-> "put_call", val |-> get_put_call_gex(option_data, spot_price)]
    /\ UNCHANGED <<otherVars, option_data, spot_price, built, ncalc, timeVars, storeVars, fetchVars>>

GetWeightedExpiration ==
    /\ built
    /\ view' = [op |-> "weighted", val |-> get_weighted_expiration(option_data, today)]
    /\ option_data' = WeightedExpirationFrame(option_data, today)
    /\ UNCHANGED <<otherVars, spot_price, built, ncalc, timeVars, storeVars, fetchVars>>

CalcIdle ==
    /\ option_data = Frame({}, <<>>)
    /\ spot_price = 0 /\ built = FALSE /\ ncalc = 0 /\ view = NoView

StoreIdle ==
    /\ daily_gex = {} /\ strike_gex = {}
    /\ store_op = NoStoreOp /\ intended = <<>>

FetchIdle ==
    /\ cache_file = [kind |-> "absent"] /\ fetch_op = NoFetchOp

FlowIdle == df_yesterday = <<>>

\* the handler as __init__ leaves it, no task started
LiveIdle ==
    /\ update_queue = <<>> /\ running = FALSE /\ last_calculation = 0
    /\ tasks = <<>> /\ batches = <<>>

RaceIdle == callers = <<>>

OtherIdle == FlowIdle /\ LiveIdle /\ RaceIdle

CalcInit ==
    /\ OtherIdle
    /\ option_data \in Chains
    /\ spot_price = 0 /\ built = FALSE /\ ncalc = 0 /\ view = NoView
    /\ today = 0 /\ now = 0
    /\ StoreIdle
    /\ FetchIdle

CalcNext ==
    \/ \E spot \in Spots : Construct(spot)
    \/ GetTotal
    \/ GetByStrike
    \/ GetByExpiry
    \/ GetSurface
    \/ GetPutCall
    \/ GetWeightedExpiration

SpecCalc == CalcInit /\ [][CalcNext]_vars

-----------------------------------------------------------------------------
(* Claims about the aggregator *)

\* gamma x 100 x open_interest x spot, negated for a put
SignedNotional(r, spot) ==
    IF r.type = "P" THEN 0 - (r.gamma * 100 * r.open_interest * spot)
    ELSE r.gamma * 100 * r.open_interest * spot

\* C1: however many times the signed notional gamma has been computed on a
\* snapshot, every contract carries gamma x 100 x open_interest x spot,
\* negated once for a put, and totalGEX is the sum of these values.
C1_PutsNegatedOnce ==
    built =>
        /\ \A i \in 1..Len(option_data.rows) :
              option_data.rows[i].notional_gamma
                  = SignedNotional(option_data.rows[i], spot_price)
        /\ view.op = "total" =>
              view.val = SumSeq([i \in 1..Len(option_data.rows) |->
                                    SignedNotional(option_data.rows[i], spot_price)])

\* a snapshot with a put, computed at least twice, whose total was asked for
C1_Witness ==
    /\ built /\ ncalc >= 2 /\ view.op = "total"
    /\ \E i \in 1..Len(option_data.rows) : option_data.rows[i].type = "P"

RECURSIVE SumCells(_, _)
SumCells(f, dom) ==
    IF dom = {} THEN 0
    ELSE LET p == CHOOSE q \in dom : TRUE
         IN  (IF f[p].nan THEN 0 ELSE f[p].v) + SumCells(f, dom \ {p})

PassesFilters(r) ==
    /\ r.strike * 100 >= spot_price * 85
    /\ r.strike * 100 <= spot_price * 115
    /\ r.expiration <= today + 365

\* C10: the entries of the surface, absent ones counted as zero, add up to the
\* signed notional gamma of exactly the contracts inside the strike band and
\* the expiry horizon.
C10_SurfaceSum ==
    view.op = "surface" =>
        SumCells(view.val, DOMAIN view.val)
            = SumSeq([i \in 1..Len(SelectSeq(option_data.rows, PassesFilters)) |->
                         SignedNotional(SelectSeq(option_data.rows, PassesFilters)[i],
                                        spot_price)])

\* a surface over a snapshot that has a contract inside both filters, one
\* outside the band and one beyond the horizon
C10_Witness ==
    /\ view.op = "surface"
    /\ \E i \in 1..Len(option_data.rows) : PassesFilters(option_data.rows[i])
    /\ \E i \in 1..Len(option_data.rows) :
          option_data.rows[i].expiration > today + 365
    /\ \E i \in 1..Len(option_data.rows) :
          option_data.rows[i].strike * 100 > spot_price * 115

-----------------------------------------------------------------------------
(* data/storage.py: HistoricalGEXTracker over its SQLite file *)

MaxDay == 1             \* the calendar runs through the days 0..MaxDay
MaxFaultStmt == 2       \* an injected storage failure strikes at statement 1..MaxFaultStmt

\* INSERT OR REPLACE INTO daily_gex: date is the primary key
InsertOrReplaceDaily(tbl, row) == {r \in tbl : r.date # row.date} \cup {row}

\* PRIMARY KEY (date, strike, type, expiry) of strike_gex
StrikeKey(r) == <<r.date, r.strike, r.type, r.expiry>>

\* INSERT OR REPLACE INTO strike_gex
InsertOrReplaceStrike(tbl, row) == {r \in tbl : StrikeKey(r) # StrikeKey(row)} \cup {row}

RECURSIVE SortedSeq(_)
SortedSeq(S) ==
    IF S = {} THEN <<>>
    ELSE LET m == CHOOSE x \in S : \A y \in S : x <= y
         IN  <<m>> \o SortedSeq(S \ {m})

\* the rows of lines 73-78, in the order of gex_by_strike.items(): the type
\* column is read off the sign of the aggregated GEX, the expiry column is
\* the snapshot's date
StrikeRows(date, by_strike) ==
    LET ks == SortedSeq(DOMAIN by_strike)
    IN  [i \in 1..Len(ks) |->
            [date |-> date, strike |-> ks[i], gex |-> by_strike[ks[i]],
             type |-> IF by_strike[ks[i]] > 0 THEN "C" ELSE "P", expiry |-> date]]

RECURSIVE InsertStrikes(_, _)
InsertStrikes(tbl, rows) ==
    IF rows = <<>> THEN tbl
    ELSE InsertStrikes(InsertOrReplaceStrike(tbl, Head(rows)), Tail(rows))

\* the tables after the first k statements of the write block have run
Executed(daily, strikes, row, srows, k) ==
    [daily |-> IF k >= 1 THEN InsertOrReplaceDaily(daily, row) ELSE daily,
     strikes |-> IF k >= 2 THEN InsertStrikes(strikes, SubSeq(srows, 1, k - 1))
                 ELSE strikes]

\* `with sqlite3.connect(...) as conn`: the connection commits when the block
\* ends normally and rolls back when it ends by an exception
ConnectionExit(before, working, raised) == IF raised THEN before ELSE working

\* A variant in autocommit mode: every statement that ran stays written.
WriteSnapshotAutocommit(daily, strikes, row, by_strike, fault) ==
    LET srows == StrikeRows(row.date, by_strike)
        nstmt == 1 + Len(srows)
        raised == fault >= 1 /\ fault <= nstmt
        ran == IF raised THEN fault - 1 ELSE nstmt
        db == Executed(daily, strikes, row, srows, ran)
    IN  [daily |-> db.daily, strikes |-> db.strikes,
         err |-> IF raised THEN "StorageError" ELSE ""]

\* lines 63-78: the daily row, then one row per strike of the by-strike
\* aggregate, in one transaction.  fault = k > 0 makes statement k raise.
WriteSnapshot(daily, strikes, row, by_strike, fault) ==
    LET srows == StrikeRows(row.date, by_strike)
        nstmt == 1 + Len(srows)
        raised == fault >= 1 /\ fault <= nstmt
        ran == IF raised THEN fault - 1 ELSE nstmt
        db == ConnectionExit([daily |-> daily, strikes |-> strikes],
                             Executed(daily, strikes, row, srows, ran), raised)
    IN  [daily |-> db.daily, strikes |-> db.strikes,
         err |-> IF raised THEN "StorageError" ELSE ""]

\* `a, b = d` for a dict d: the targets take the keys of d, and the
\* assignment raises ValueError unless d has exactly two keys
UnpackPair(d) ==
    IF Cardinality(DOMAIN d) # 2 THEN [err |-> "ValueError", vals |-> <<>>]
    ELSE [err |-> "",
          vals |-> CHOOSE ks \in [1..2 -> DOMAIN d] : ks[1] # ks[2]]

\* what a call of store_daily_snapshot is asked to store (lines 58-61, 72)
Want(df, cspot, spot, day) ==
    [total_gex |-> get_total_gex(df),
     call_gex |-> get_put_call_gex(df, cspot).calls,
     put_gex |-> get_put_call_gex(df, cspot).puts,
     spot_price |-> spot,
     weighted_expiry |-> get_weighted_expiration(df, day),
     by_strike |-> get_gex_by_strike(df, cspot)]

DailyRow(date, w) ==
    [date |-> date, total_gex |-> w.total_gex, call_gex |-> w.call_gex,
     put_gex |-> w.put_gex, spot_price |-> w.spot_price,
     weighted_expiry |-> w.weighted_expiry]

\* A variant that reads the put/call split by key and writes in autocommit mode.
store_daily_snapshot_autocommit(daily, strikes, df, cspot, spot, day, fault) ==
    LET w == WriteSnapshotAutocommit(daily, strikes,
                 DailyRow(day, Want(df, cspot, spot, day)),
                 get_gex_by_strike(df, cspot), fault)
    IN  [daily |-> w.daily, strikes |-> w.strikes, err |-> w.err]

\* store_daily_snapshot(calculator, spot_price): df and cspot are the
\* calculator's frame and spot, day is datetime.now()
store_daily_snapshot(daily, strikes, df, cspot, spot, day, fault) ==
    LET date == day
        total_gex == get_total_gex(df)
        unpacked == UnpackPair(get_put_call_gex(df, cspot))
    IN  IF unpacked.err # ""
        THEN [daily |-> daily, strikes |-> strikes, err |-> unpacked.err]
        ELSE LET weighted == get_weighted_expiration(df, day)
                 df1 == WeightedExpirationFrame(df, day)
                 w == WriteSnapshot(daily, strikes,
                          [date |-> date, total_gex |-> total_gex,
                           call_gex |-> unpacked.vals[1], put_gex |-> unpacked.vals[2],
                           spot_price |-> spot, weighted_expiry |-> weighted],
                          get_gex_by_strike(df1, cspot), fault)
             IN  [daily |-> w.daily, strikes |-> w.strikes, err |-> w.err]

\* the result of backfill_historical_data: the tables, the exception that
\* ended it ("" for none), whether it was raised to the caller, what was
\* logged, the dates under which a snapshot was committed, and what each call
\* of store_daily_snapshot was asked to store
BackfillResult(daily, strikes, err, raised, log, stored, wants) ==
    [daily |-> daily, strikes |-> strikes, err |-> err, raised |-> raised,
     log |-> log, stored |-> stored, wants |-> wants]

\* the element of a one-element set: Only({e(x) : x \in {v}}) is e(v) with v
\* evaluated once
Only(S) == CHOOSE x \in S : TRUE

\* lines 209-211: the loop over historical_data.groupby('date'), from the
\* j-th group on; fault = [call, stmt] makes statement stmt of the call-th
\* store_daily_snapshot raise
RECURSIVE BackfillGroups(_, _, _, _, _, _, _)
BackfillGroups(daily, strikes, hist, dates, day, fault, j) ==
    IF dates = <<>>
    THEN [daily |-> daily, strikes |-> strikes, err |-> "", stored |-> <<>>, wants |-> <<>>]
    ELSE LET sel(r) == r.date = Head(dates)
             group == Filter(hist, sel)
             close == group.rows[1].close
             stmt == IF fault.call = j THEN fault.stmt ELSE 0
         IN  Only({
               IF c.err # ""
               THEN [daily |-> daily, strikes |-> strikes, err |-> c.err,
                     stored |-> <<>>, wants |-> <<>>]
               ELSE Only({
                      IF st.err # ""
                      THEN [daily |-> st.daily, strikes |-> st.strikes, err |-> st.err,
                            stored |-> <<>>, wants |-> <<want>>]
                      ELSE Only({[daily |-> rest.daily, strikes |-> rest.strikes,
                                  err |-> rest.err, stored |-> <<day>> \o rest.stored,
                                  wants |-> <<want>> \o rest.wants] :
                                 rest \in {BackfillGroups(st.daily, st.strikes, hist,
                                               Tail(dates), day, fault, j + 1)}}) :
                      st \in {store_daily_snapshot(daily, strikes, c.df, close, close,
                                                   day, stmt)},
                      want \in {Want(c.df, close, close, day)}}) :
               c \in {calculate_notional_gamma(group, close)}})

\* A variant whose except clause logs the error and does not raise it again.
backfill_historical_data_swallow(daily, strikes, resp, day, fault) ==
    IF resp.kind = "error"
    THEN BackfillResult(daily, strikes, "ProviderError", FALSE, <<"error">>, <<>>, <<>>)
    ELSE IF resp.frame.rows = <<>>
    THEN BackfillResult(daily, strikes, "", FALSE, <<"warning">>, <<>>, <<>>)
    ELSE Only({
           IF r.err = ""
           THEN BackfillResult(r.daily, r.strikes, "", FALSE, <<"info">>, r.stored, r.wants)
           ELSE BackfillResult(r.daily, r.strikes, r.err, FALSE, <<"error">>,
                               r.stored, r.wants) :
           r \in {BackfillGroups(daily, strikes, resp.frame,
                      SortedSeq(Keys(resp.frame, "date")), day, fault, 1)}})

\* backfill_historical_data: resp is what provider.get_historical_data did
\* (raised, or returned a frame)
backfill_historical_data(daily, strikes, resp, day, fault) ==
    IF resp.kind = "error"
    THEN BackfillResult(daily, strikes, "ProviderError", TRUE, <<"error">>, <<>>, <<>>)
    ELSE IF resp.frame.rows = <<>>
    THEN BackfillResult(daily, strikes, "", FALSE, <<"warning">>, <<>>, <<>>)
    ELSE Only({
           IF r.err = ""
           THEN BackfillResult(r.daily, r.strikes, "", FALSE, <<"info">>, r.stored, r.wants)
           ELSE BackfillResult(r.daily, r.strikes, r.err, TRUE, <<"error">>,
                               r.stored, r.wants) :
           r \in {BackfillGroups(daily, strikes, resp.frame,
                      SortedSeq(Keys(resp.frame, "date")), day, fault, 1)}})

-----------------------------------------------------------------------------
(* The historical store as a state machine *)

\* the chains handed to store_daily_snapshot: none, a call, a call with a
\* heavier put at the same strike (the strike's GEX turns negative), and a call
\* outside the band (the by-strike aggregate is empty)
StoreCall == [type |-> "C", strike |-> 100, expiration |-> 30, gamma |-> 1,
              open_interest |-> 3]
StorePut == [type |-> "P", strike |-> 100, expiration |-> 30, gamma |-> 2,
             open_interest |-> 3]
StoreFarCall == [type |-> "C", strike |-> 120, expiration |-> 30, gamma |-> 1,
                 open_interest |-> 3]

StoreChains ==
    {Frame(RequiredColumns, rs) :
        rs \in {<<>>, <<StoreCall>>, <<StoreCall, StorePut>>, <<StoreFarCall>>}}

\* what the provider returns for a backfill: records with a date and a
\* closing price, as providers.py builds them, with or without the gamma and
\* open-interest fields of the canonical contract record
HistDates == {0, 1}
PolygonColumns == {"date", "type", "strike", "expiration", "volume", "close"}

HistRow(d, t) ==
    [date |-> d, type |-> t, strike |-> 100, expiration |-> 30, volume |-> 10,
     close |-> 100]

CanonicalRow(d, t) ==
    [date |-> d, type |-> t, strike |-> 100, expiration |-> 30, volume |-> 10,
     close |-> 100, gamma |-> 1, open_interest |-> 3]

HistFrames ==
    {Frame({}, <<>>)}
    \cup {Frame(PolygonColumns, rs) :
            rs \in {<<HistRow(0, "C")>>, <<HistRow(1, "P"), HistRow(0, "C")>>}}
    \cup {Frame(PolygonColumns \cup {"gamma", "open_interest"}, rs) :
            rs \in {<<CanonicalRow(0, "C")>>,
                     <<CanonicalRow(1, "P"), CanonicalRow(0, "C")>>}}

HistResponses == {[kind |-> "error"]} \cup {[kind |-> "data", frame |-> f] : f \in HistFrames}

NoFault == [call |-> 0, stmt |-> 0]
Faults == {NoFault} \cup [call : 1..Cardinality(HistDates), stmt : 1..MaxFaultStmt]

\* intended after the calls `wants` of store_daily_snapshot on day `day`
RECURSIVE Record(_, _, _)
Record(int, day, wants) ==
    IF wants = <<>> THEN int
    ELSE Record((day :> [want |-> Head(wants),
                         calls |-> IF day \in DOMAIN int THEN 2 ELSE 1]) @@ int,
                day, Tail(wants))

\* main.py:72 and 130: a calculator over the fetched chain is stored
StoreDailySnapshot(chain, spot, fault) ==
    /\ LET c == calculate_notional_gamma(chain, spot)
           r == store_daily_snapshot(daily_gex, strike_gex, c.df, spot, spot, today, fault)
       IN  /\ daily_gex' = r.daily
           /\ strike_gex' = r.strikes
           /\ store_op' = [op |-> "store", date |-> today, err |-> r.err,
                           raised |-> r.err # "", log |-> <<>>,
                           stored |-> IF r.err = "" THEN <<today>> ELSE <<>>,
                           dates |-> {}]
           /\ intended' = Record(intended, today, <<Want(c.df, spot, spot, today)>>)
    /\ UNCHANGED <<otherVars, calcVars, timeVars, fetchVars>>

Backfill(resp, fault) ==
    /\ \E r \in {backfill_historical_data(daily_gex, strike_gex, resp, today, fault)} :
           /\ daily_gex' = r.daily
           /\ strike_gex' = r.strikes
           /\ store_op' = [op |-> "backfill", date |-> today, err |-> r.err,
                           raised |-> r.raised, log |-> r.log, stored |-> r.stored,
                           dates |-> IF resp.kind = "data"
                                     THEN Keys(resp.frame, "date") ELSE {}]
           /\ intended' = Record(intended, today, r.wants)
    /\ UNCHANGED <<otherVars, calcVars, timeVars, fetchVars>>

AdvanceDay ==
    /\ today < MaxDay
    /\ today' = today + 1
    /\ UNCHANGED <<otherVars, now, calcVars, storeVars, fetchVars>>

\* The database file outlives the process (_init_db creates the tables only
\* when they are missing): a run starts from an empty file or from one that
\* holds the snapshot of day 0.
PriorChain == Frame(RequiredColumns, <<StoreCall>>)

\* a chain with a call and a put at one strike
PriorMixedChain == Frame(RequiredColumns, <<StoreCall, StorePut>>)

PriorChains == {PriorChain, PriorMixedChain}

\* what lines 63-78 write for a chain at spot 100 on day 0
PriorStoreOf(chain) ==
    LET df == calculate_notional_gamma(chain, 100).df
    IN  WriteSnapshot({}, {}, DailyRow(0, Want(df, 100, 100, 0)),
                      get_gex_by_strike(df, 100), 0)

PriorStore == PriorStoreOf(PriorChain)

StoreInit ==
    /\ OtherIdle
    /\ CalcIdle /\ FetchIdle
    /\ today = 0 /\ now = 0
    /\ store_op = NoStoreOp /\ intended = <<>>
    /\ \/ daily_gex = {} /\ strike_gex = {}
       \/ \E chain \in PriorChains :
             daily_gex = PriorStoreOf(chain).daily /\ strike_gex = PriorStoreOf(chain).strikes

StoreNext ==
    \/ \E chain \in StoreChains, spot \in Spots, k \in 0..MaxFaultStmt :
          StoreDailySnapshot(chain, spot, k)
    \/ \E resp \in HistResponses, fault \in Faults : Backfill(resp, fault)
    \/ AdvanceDay

SpecStore == StoreInit /\ [][StoreNext]_vars

-----------------------------------------------------------------------------
(* Claims about the historical store *)

Range(q) == {q[i] : i \in 1..Len(q)}

\* a step of store_daily_snapshot, of backfill_historical_data: the day
\* stands still and store_op records the call
StoreStep == today' = today /\ store_op'.op = "store"

BackfillStep == today' = today /\ store_op'.op = "backfill"

\* C2: after any sequence of storeDailySnapshot calls, daily_gex holds exactly
\* one row for every date a snapshot was stored for, and the row carries the
\* total, call and put GEX, the spot and the weighted expiry of the latest
\* call for that date.
C2_OneRowPerStoredDate ==
    \A d \in DOMAIN intended :
        /\ Cardinality({r \in daily_gex : r.date = d}) = 1
        /\ \A r \in daily_gex : r.date = d => r = DailyRow(d, intended[d].want)

C4_LatestBatchOnly ==
    \A d \in DOMAIN intended :
        intended[d].calls >= 2 =>
            LET rows == {r \in strike_gex : r.date = d}
                by_strike == intended[d].want.by_strike
            IN  /\ {r.strike : r \in rows} = DOMAIN by_strike
                /\ \A r \in rows : r.gex = by_strike[r.strike]
                /\ \A r1, r2 \in rows : r1.strike = r2.strike => r1 = r2

-----------------------------------------------------------------------------
(* data/fetcher.py: OptionDataFetcher over its cache file *)

CACHE_EXPIRY == 3600
MaxHours == 2           \* the clock runs through the seconds around 0..MaxHours expiry periods

\* a pandas Timestamp at midnight of day d, and the text "YYYY-MM-DD" of day d
Timestamp(d) == [dtype |-> "datetime64", day |-> d]
DateString(d) == [dtype |-> "str", day |-> d]

\* Series.dt.strftime('%Y-%m-%d') and pd.to_datetime, per value
strftime(x) == DateString(x.day)
to_datetime(x) == Timestamp(x.day)

\* datetime.isoformat() and datetime.fromisoformat(); a text that is no ISO
\* date makes fromisoformat raise
isoformat(t) == [fmt |-> "iso", t |-> t]
NotIso == [fmt |-> "other", t |-> 0]
fromisoformat(text) == text.t

\* DataFrame.to_dict(orient='records') and pd.DataFrame(records)
to_dict_records(df) == df.rows
DataFrame(records) ==
    Frame(UNION {DOMAIN records[i] : i \in 1..Len(records)}, records)

\* what a call of the fetcher's helpers gives back: kind is "data" (a
\* snapshot), "none" (None) or "exc" (an exception left the helper)
Loaded(kind, err, spot, frame, log) ==
    [kind |-> kind, err |-> err, spot |-> spot, frame |-> frame, log |-> log]

\* lines 56-75, the body of the try block of _load_from_cache
LoadBody(file, t) ==
    IF file.kind = "absent" THEN Loaded("none", "", 0, Frame({}, <<>>), "debug")
    ELSE IF file.kind = "unreadable"
    THEN Loaded("exc", "PermissionError", 0, Frame({}, <<>>), "")
    ELSE IF file.kind = "garbage"
    THEN Loaded("exc", "JSONDecodeError", 0, Frame({}, <<>>), "")
    ELSE IF "timestamp" \notin DOMAIN file.obj
    THEN Loaded("exc", "KeyError: timestamp", 0, Frame({}, <<>>), "")
    ELSE IF file.obj.timestamp.fmt # "iso"
    THEN Loaded("exc", "ValueError: Invalid isoformat string", 0, Frame({}, <<>>), "")
    ELSE IF t - fromisoformat(file.obj.timestamp) > CACHE_EXPIRY
    THEN Loaded("none", "", 0, Frame({}, <<>>), "debug")
    ELSE IF "option_data" \notin DOMAIN file.obj
    THEN Loaded("exc", "KeyError: option_data", 0, Frame({}, <<>>), "")
    ELSE LET df == DataFrame(file.obj.option_data)
             loaded ==
                 IF "expiration" \in df.cols
                 THEN Assign(df, "expiration",
                             [i \in 1..Len(df.rows) |-> to_datetime(df.rows[i].expiration)])
                 ELSE df
         IN  IF "spot_price" \notin DOMAIN file.obj
             THEN Loaded("exc", "KeyError: spot_price", 0, Frame({}, <<>>), "")
             ELSE Loaded("data", "", file.obj.spot_price, loaded, "debug")

\* A variant without the except clause: an exception of the body leaves the helper.
load_from_cache_unguarded(file, t) == LoadBody(file, t)

\* _load_from_cache: the except clause logs the error and returns None
load_from_cache(file, t) ==
    Only({IF r.kind = "exc" THEN Loaded("none", "", 0, Frame({}, <<>>), "error") ELSE r :
          r \in {LoadBody(file, t)}})

\* _save_to_cache: the file after the call and what was logged; an exception
\* (the .dt accessor on a column that holds no datetimes, a file that cannot
\* be opened for writing) is logged and swallowed
save_to_cache(file, t, spot, df) ==
    IF /\ "expiration" \in df.cols
       /\ \E i \in 1..Len(df.rows) :
             df.rows[i].expiration.dtype # "datetime64"
    THEN [file |-> file, log |-> "error"]
    ELSE IF file.kind = "unreadable" /\ ~file.writable
    THEN [file |-> file, log |-> "error"]
    ELSE LET option_data_dict ==
                 IF "expiration" \in df.cols
                 THEN Assign(df, "expiration",
                             [i \in 1..Len(df.rows) |->
                                 strftime(df.rows[i].expiration)])
                 ELSE df
         IN  [file |-> [kind |-> "json",
                        obj |-> [timestamp |-> isoformat(t),
                                 spot_price |-> spot,
                                 option_data |-> to_dict_records(option_data_dict)]],
              log |-> "debug"]

\* how get_option_data ended: returned a snapshot or raised, where the
\* snapshot came from, and the cache file it left
Fetched(out, source, spot, frame, err, file) ==
    [out |-> out, source |-> source, spot |-> spot, frame |-> frame, err |-> err,
     file |-> file]

\* get_option_data: file is the cache file, t is datetime.now(), resp is what
\* provider.get_option_chain does if it is called
get_option_data(file, t, resp) ==
    Only({
      IF cached.kind = "exc"
      THEN Fetched("raised", "cache", 0, Frame({}, <<>>), cached.err, file)
      ELSE IF cached.kind = "data"
      THEN Fetched("returned", "cache", cached.spot, cached.frame, "", file)
      ELSE IF resp.kind = "error"
      THEN Fetched("raised", "provider", 0, Frame({}, <<>>), "ProviderError", file)
      ELSE IF resp.frame.rows = <<>>
      THEN Fetched("raised", "provider", 0, Frame({}, <<>>),
                   "ValueError: Empty option data received", file)
      ELSE IF RequiredColumns \ resp.frame.cols # {}
      THEN Fetched("raised", "provider", 0, Frame({}, <<>>),
                   "ValueError: Missing required columns", file)
      ELSE Fetched("returned", "provider", resp.spot, resp.frame, "",
                   save_to_cache(file, t, resp.spot, resp.frame).file) :
      cached \in {load_from_cache(file, t)}})

-----------------------------------------------------------------------------
(* The fetcher as a state machine *)

\* the seconds the clock visits: around every multiple of the expiry period
Times ==
    {h * CACHE_EXPIRY + d : h \in 0..MaxHours, d \in {-1, 0, 1}} \cap Nat

FetchCall == [type |-> "C", strike |-> 100, expiration |-> Timestamp(30), gamma |-> 1,
              open_interest |-> 3]
FetchPut == [type |-> "P", strike |-> 100, expiration |-> Timestamp(30), gamma |-> 2,
             open_interest |-> 3]
NoGammaRow == [type |-> "C", strike |-> 100, expiration |-> Timestamp(30),
               open_interest |-> 3]

\* what provider.get_option_chain does: it raises, or it returns a spot and
\* a frame (a chain, no rows at all, or rows without the gamma column)
ProviderFrames ==
    {Frame(RequiredColumns, <<FetchCall>>),
     Frame(RequiredColumns, <<FetchCall, FetchPut>>),
     Frame({}, <<>>),
     Frame(RequiredColumns \ {"gamma"}, <<NoGammaRow>>)}

ProviderSpots == {100, 101}

ProviderResponses ==
    {[kind |-> "error"]}
    \cup {[kind |-> "data", spot |-> sp, frame |-> f] :
             sp \in ProviderSpots, f \in ProviderFrames}

\* the records of a cache file: expiration is text
CachedRecords ==
    {<<[FetchCall EXCEPT !.expiration = DateString(30)]>>,
     <<>>,
     <<[NoGammaRow EXCEPT !.expiration = DateString(30)]>>}

\* The cache file outlives the process.  A run finds no file, a file that
\* cannot be read, one that is no JSON, or a JSON object written at second 0
\* that has all, or all but one, of the keys timestamp, spot_price, option_data.
CacheFiles ==
    {[kind |-> "absent"], [kind |-> "garbage"]}
    \cup {[kind |-> "unreadable", writable |-> w] : w \in BOOLEAN}
    \cup {[kind |-> "json",
           obj |-> [timestamp |-> isoformat(0), spot_price |-> 99, option_data |-> rs]] :
             rs \in CachedRecords}
    \cup {[kind |-> "json",
           obj |-> [timestamp |-> NotIso, spot_price |-> 99,
                    option_data |-> <<[FetchCall EXCEPT !.expiration = DateString(30)]>>]],
          [kind |-> "json",
           obj |-> [spot_price |-> 99,
                    option_data |-> <<[FetchCall EXCEPT !.expiration = DateString(30)]>>]],
          [kind |-> "json",
           obj |-> [timestamp |-> isoformat(0),
                    option_data |-> <<[FetchCall EXCEPT !.expiration = DateString(30)]>>]],
          [kind |-> "json",
           obj |-> [timestamp |-> isoformat(0), spot_price |-> 99]]}

\* main.py:65: the chain is fetched; fetch_op keeps the call's time, the file
\* it found, the provider's behaviour and the way it ended
GetOptionData(resp) ==
    /\ \E r \in {get_option_data(cache_file, now, resp)} :
          /\ cache_file' = r.file
          /\ fetch_op' = [op |-> "get", at |-> now, before |-> cache_file, resp |-> resp,
                          out |-> r.out, source |-> r.source, spot |-> r.spot,
                          frame |-> r.frame, err |-> r.err]
    /\ UNCHANGED <<otherVars, calcVars, timeVars, storeVars>>

\* time passes
Tick(t) ==
    /\ t > now
    /\ now' = t
    /\ UNCHANGED <<otherVars, today, calcVars, storeVars, fetchVars>>

FetchInit ==
    /\ OtherIdle
    /\ CalcIdle /\ StoreIdle
    /\ today = 0 /\ now = 0
    /\ fetch_op = NoFetchOp
    /\ cache_file \in CacheFiles

FetchNext ==
    \/ \E resp \in ProviderResponses : GetOptionData(resp)
    \/ \E t \in Times : Tick(t)

SpecFetch == FetchInit /\ [][FetchNext]_vars

-----------------------------------------------------------------------------
(* Claims about the fetcher *)

\* the file is a JSON object whose timestamp can be read
HasAge(file) ==
    /\ file.kind = "json"
    /\ "timestamp" \in DOMAIN file.obj
    /\ file.obj.timestamp.fmt = "iso"

\* now - fetched_at at second t
Age(file, t) == t - fromisoformat(file.obj.timestamp)

\* the entry a fetch of (spot, frame) at second t leaves in the file
CacheEntry(t, spot, frame) ==
    [kind |-> "json",
     obj |-> [timestamp |-> isoformat(t), spot_price |-> spot,
              option_data |->
                  [i \in 1..Len(frame.rows) |->
                      [frame.rows[i] EXCEPT !.expiration = DateString(@.day)]]]]

\* the chain can be aggregated: it has rows and every required column
ValidChain(frame) == frame.rows # <<>> /\ RequiredColumns \subseteq frame.cols

\* C7: get_option_data serves the cached entry only while its age is below
\* 3600 s; at an age of 3600 s or more it goes to the provider, and a fetch
\* that succeeds puts its own snapshot in the place of the entry.
C7_CacheServedOnlyWhileFresh ==
    (fetch_op.op = "get" /\ HasAge(fetch_op.before)) =>
        /\ fetch_op.source = "cache" => Age(fetch_op.before, fetch_op.at) < CACHE_EXPIRY
        /\ Age(fetch_op.before, fetch_op.at) >= CACHE_EXPIRY =>
              /\ fetch_op.source = "provider"
              /\ fetch_op.out = "returned" =>
                    cache_file = CacheEntry(fetch_op.at, fetch_op.spot, fetch_op.frame)

\* the file cannot be read, is no JSON, or lacks timestamp or spot_price
CorruptEntry(file) ==
    \/ file.kind \in {"unreadable", "garbage"}
    \/ /\ file.kind = "json"
       /\ \/ "timestamp" \notin DOMAIN file.obj
          \/ "spot_price" \notin DOMAIN file.obj

CacheErrors ==
    {"PermissionError", "JSONDecodeError", "KeyError: timestamp",
     "ValueError: Invalid isoformat string", "KeyError: option_data",
     "KeyError: spot_price"}

\* C8: over a corrupt or unreadable cache entry get_option_data goes to the
\* provider; the caller gets the provider's snapshot when the provider gives
\* a valid one, and no error that the cache entry caused.
C8_CorruptCacheIsMiss ==
    (fetch_op.op = "get" /\ CorruptEntry(fetch_op.before)) =>
        /\ fetch_op.source = "provider"
        /\ fetch_op.err \notin CacheErrors
        /\ (fetch_op.resp.kind = "data" /\ ValidChain(fetch_op.resp.frame)) =>
              /\ fetch_op.out = "returned"
              /\ fetch_op.spot = fetch_op.resp.spot
              /\ fetch_op.frame = fetch_op.resp.frame

\* a fresh entry without spot_price was found and the provider's snapshot returned
C8_Witness ==
    /\ fetch_op.op = "get"
    /\ HasAge(fetch_op.before)
    /\ Age(fetch_op.before, fetch_op.at) < CACHE_EXPIRY
    /\ "spot_price" \notin DOMAIN fetch_op.before.obj
    /\ fetch_op.out = "returned" /\ fetch_op.source = "provider"

\* C9: get_option_data never returns a chain that is empty or lacks a
\* required column, from the provider or from the cache; for such a chain of
\* the provider it raises a validation failure and leaves the cache file as
\* it was.
C9_InvalidChainNeverReturned ==
    fetch_op.op = "get" =>
        /\ fetch_op.out = "returned" => ValidChain(fetch_op.frame)
        /\ (/\ fetch_op.source = "provider"
            /\ fetch_op.resp.kind = "data"
            /\ ~ValidChain(fetch_op.resp.frame)) =>
              /\ fetch_op.out = "raised"
              /\ fetch_op.err \in {"ValueError: Empty option data received",
                                   "ValueError: Missing required columns"}
              /\ cache_file = fetch_op.before

-----------------------------------------------------------------------------
(* Claims about the aggregate views *)

\* the sum of the surface entries of strike s over its expiries, and of
\* expiry e over its strikes, absent entries counted as zero
SurfaceAtStrike(surface, s) ==
    SumCells(surface, {p \in DOMAIN surface : p[2] = s})

SurfaceAtExpiry(surface, e) ==
    SumCells(surface, {p \in DOMAIN surface : p[1] = e})

\* C11: for every strike of the surface the entries at that strike add up to
\* byStrike at the strike, and for every expiry of the surface the entries at
\* that expiry add up to byExpiry at the expiry.
C11_ViewsConsistent ==
    view.op = "surface" =>
        LET by_strike == get_gex_by_strike(option_data, spot_price)
            by_expiry == get_gex_by_expiry(option_data, today)
        IN  /\ \A p \in DOMAIN view.val :
                  /\ p[2] \in DOMAIN by_strike
                  /\ SurfaceAtStrike(view.val, p[2]) = by_strike[p[2]]
            /\ \A p \in DOMAIN view.val :
                  /\ p[1] \in DOMAIN by_expiry
                  /\ SurfaceAtExpiry(view.val, p[1]) = by_expiry[p[1]]

\* C12: every strike of byStrike lies in [0.85 x spot, 1.15 x spot], bounds
\* included, and its value is the sum of the signed notional gamma of all
\* contracts at that strike.
C12_ByStrikeInsideBand ==
    view.op = "by_strike" =>
        \A s \in DOMAIN view.val :
            /\ s * 100 >= spot_price * 85
            /\ s * 100 <= spot_price * 115
            /\ view.val[s]
                 = SumSeq([i \in 1..Len(option_data.rows) |->
                              IF option_data.rows[i].strike = s
                              THEN SignedNotional(option_data.rows[i], spot_price)
                              ELSE 0])

\* byStrike over a snapshot with a contract on the lower bound of the band
\* and one above the band
C12_Witness ==
    /\ view.op = "by_strike"
    /\ \E s \in DOMAIN view.val : s * 100 = spot_price * 85
    /\ \E i \in 1..Len(option_data.rows) :
          option_data.rows[i].strike * 100 > spot_price * 115

-----------------------------------------------------------------------------
(* core/black_scholes.py.  Spot and strike are whole numbers, T is carried   *)
(* in days (T x 365), volatilities and shifts in units of 1/5000.  A Greek   *)
(* is a closed formula over log, exp and the normal distribution; its value  *)
(* is carried as the formula's name with the arguments it depends on, so two *)
(* values are equal when they are the same formula at the same arguments.    *)

\* the keys of the dict black_scholes_greeks returns, in insertion order
GreekOrder ==
    <<"delta", "gamma", "theta", "vega", "rho", "charm", "vanna", "speed", "color">>

\* the Greeks whose formula branches on option_type (lines 46-53, 60-63)
TypedGreeks == {"delta", "rho", "theta", "charm"}

\* the number n
Num(n) == [sym |-> "num", args |-> <<n>>]

\* the value of Greek g at (S, K, T, r, sigma) for a call or a put; every
\* type other than 'C' takes the else branch
GreekValue(g, S, K, T, r, sigma, option_type) ==
    [sym |-> g,
     args |-> <<S, K, T, r, sigma,
                IF g \in TypedGreeks
                THEN (IF option_type = "C" THEN "C" ELSE "P") ELSE "">>]

\* what a call gives back: the dict, or the exception that left it
Greeks(err, greeks) == [err |-> err, greeks |-> greeks]

\* lines 32-35: the terminal case
ZeroGreeks == [g \in {GreekOrder[i] : i \in 1..Len(GreekOrder)} |-> Num(0)]

\* lines 37-79: math.sqrt(T) needs T >= 0, S / K needs K # 0, math.log needs
\* S / K > 0, and d1 divides by sigma * sqrt_T
BlackScholesBody(S, K, T, r, sigma, option_type) ==
    IF T < 0 THEN Greeks("ValueError: math domain error", ZeroGreeks)
    ELSE IF K = 0 THEN Greeks("ZeroDivisionError", ZeroGreeks)
    ELSE IF S * K <= 0 THEN Greeks("ValueError: math domain error", ZeroGreeks)
    ELSE IF sigma = 0 \/ T = 0 THEN Greeks("ZeroDivisionError", ZeroGreeks)
    ELSE Greeks("", [g \in DOMAIN ZeroGreeks |->
                        GreekValue(g, S, K, T, r, sigma, option_type)])

\* A variant whose terminal case is T < 0 only.
black_scholes_greeks_expired_only(S, K, T, r, sigma, option_type) ==
    IF T < 0 THEN Greeks("", ZeroGreeks)
    ELSE BlackScholesBody(S, K, T, r, sigma, option_type)

\* black_scholes_greeks
black_scholes_greeks(S, K, T, r, sigma, option_type) ==
    IF T <= 0 THEN Greeks("", ZeroGreeks)
    ELSE BlackScholesBody(S, K, T, r, sigma, option_type)

\* the keys of the dict compute_option_greeks fills (lines 98-107)
ResultGreeks ==
    {"delta", "gamma", "theta", "vega", "charm", "vanna", "speed", "color"}

\* what compute_option_greeks gives back: the exception that left it ("" for
\* none), the arrays, and the arguments of the black_scholes_greeks calls made
Batch(err, results, calls) == [err |-> err, results |-> results, calls |-> calls]

\* lines 119-120 for one row: results[greek][i] = value for every key of the
\* row's dict from the k-th on, i being the row's index label; a key that
\* results lacks raises KeyError, a label outside the array IndexError
RECURSIVE StoreGreeks(_, _, _, _)
StoreGreeks(results, greeks, i, k) ==
    IF k > Len(GreekOrder) THEN [err |-> "", results |-> results]
    ELSE IF GreekOrder[k] \notin DOMAIN results
    THEN [err |-> "KeyError: " \o GreekOrder[k], results |-> results]
    ELSE IF i + 1 \notin DOMAIN results[GreekOrder[k]]
    THEN [err |-> "IndexError", results |-> results]
    ELSE StoreGreeks([results EXCEPT ![GreekOrder[k]][i + 1] = greeks[GreekOrder[k]]],
                     greeks, i, k + 1)

\* lines 109-120: the loop over df.iterrows(), from the j-th row on
RECURSIVE BatchRows(_, _, _, _, _, _)
BatchRows(df, spot, rate, results, calls, j) ==
    IF j > Len(df.rows) THEN Batch("", results, calls)
    ELSE LET row == df.rows[j]
             call == <<spot, row.strike, row.T, rate, row.iv, row.type>>
         IN  Only({
               IF g.err # "" THEN Batch(g.err, results, Append(calls, call))
               ELSE Only({
                      IF st.err # "" THEN Batch(st.err, st.results, Append(calls, call))
                      ELSE BatchRows(df, spot, rate, st.results, Append(calls, call), j + 1) :
                      st \in {StoreGreeks(results, g.greeks, row.idx, 1)}}) :
               g \in {black_scholes_greeks(spot, row.strike, row.T, rate, row.iv, row.type)}})

\* compute_option_greeks(df, spot_price, risk_free_rate): every row of df
\* carries its index label in idx
compute_option_greeks(df, spot, rate) ==
    IF df.rows # <<>> /\ ~({"strike", "T", "iv", "type"} \subseteq df.cols)
    THEN Batch("KeyError", <<>>, <<>>)
    ELSE BatchRows(df, spot, rate,
                   [g \in ResultGreeks |-> [i \in 1..Len(df.rows) |-> Num(0)]], <<>>, 1)

-----------------------------------------------------------------------------
(* core/scenarios.py.  A shocked spot is carried in units of 1/5000          *)
(* (spot x (5000 + shift)), so the GEX of a spot shock is in units of        *)
(* 1/5000^2; the GEX at the snapshot's own spot is in units of 1.            *)

ShiftUnit == 5000

\* contract_size * 0.01, for contract sizes that are multiples of 100
Hundredth(contract_size) == contract_size \div 100

\* a sum of Greek values with whole coefficients: the function from each
\* value that occurs to its total coefficient, zero totals left out; a
\* number n counts as n times the number 1
LinItem(coef, value) ==
    IF value.sym = "num" THEN [coef |-> coef * value.args[1], term |-> Num(1)]
    ELSE [coef |-> coef, term |-> value]

LinSum(items) ==
    LET total(t) == SumSeq([i \in 1..Len(items) |->
                               IF items[i].term = t THEN items[i].coef ELSE 0])
    IN  [t \in {items[i].term : i \in {j \in 1..Len(items) : total(items[j].term) # 0}}
            |-> total(t)]

\* what a scenario gives back: the exception that left it ("" for none), the
\* value returned, and the arguments of the black_scholes_greeks calls made
Scenario(err, val, calls) == [err |-> err, val |-> val, calls |-> calls]

\* df[c] = values for a column the rows already have; index labels stay
SetColumn(df, c, values) ==
    Frame(df.cols \cup {c},
          [i \in 1..Len(df.rows) |-> [df.rows[i] EXCEPT ![c] = values[i]]])

\* scenario_spot_shock: (new_spot, sum of GEX) with
\* GEX = new_spot * gamma * open_interest * contract_size * new_spot * 0.01,
\* negated for puts
scenario_spot_shock(df, spot, shift_pct, contract_size) ==
    LET new_spot == spot * (ShiftUnit + shift_pct)
        gex == [i \in 1..Len(df.rows) |->
                   new_spot * df.rows[i].gamma * df.rows[i].open_interest
                       * Hundredth(contract_size) * new_spot]
        df_scenario == SetColumn(df, "GEX", gex)
        inverted == SetColumn(df_scenario, "GEX",
                        [i \in 1..Len(df_scenario.rows) |->
                            IF df_scenario.rows[i].type = "P"
                            THEN df_scenario.rows[i].GEX * (-1)
                            ELSE df_scenario.rows[i].GEX])
    IN  Scenario("", [spot |-> new_spot, gex |-> SumSeq(Column(inverted, "GEX"))], <<>>)

\* lines 84-96 and 140-152: GEX = spot * gamma * open_interest *
\* contract_size * spot * 0.01 with the recomputed gammas, taken by position,
\* negated for puts, and summed
ScenarioGex(df_scenario, spot, gamma, contract_size) ==
    LinSum([i \in 1..Len(df_scenario.rows) |->
               LinItem((IF df_scenario.rows[i].type = "P" THEN -1 ELSE 1)
                           * spot * df_scenario.rows[i].open_interest
                           * Hundredth(contract_size) * spot,
                       gamma[i])])

\* scenario_vol_shock
scenario_vol_shock(df, spot, vol_shift, rate, contract_size) ==
    LET df_scenario == SetColumn(df, "iv",
                           [i \in 1..Len(df.rows) |-> df.rows[i].iv + vol_shift])
    IN  Only({
          IF new_greeks.err # "" THEN Scenario(new_greeks.err, LinSum(<<>>), new_greeks.calls)
          ELSE Scenario("", ScenarioGex(df_scenario, spot, new_greeks.results["gamma"],
                                        contract_size),
                        new_greeks.calls) :
          new_greeks \in {compute_option_greeks(df_scenario, spot, rate)}})

\* A variant that keeps the contracts whose remaining time was clipped to zero.
scenario_time_decay_keeps_expired(df, spot, days_forward, rate, contract_size) ==
    LET df_scenario == SetColumn(df, "T",
                           [i \in 1..Len(df.rows) |->
                               IF df.rows[i].T - days_forward < 0 THEN 0
                               ELSE df.rows[i].T - days_forward])
    IN  IF Len(df_scenario.rows) = 0 THEN Scenario("", LinSum(<<>>), <<>>)
        ELSE Only({
               IF new_greeks.err # ""
               THEN Scenario(new_greeks.err, LinSum(<<>>), new_greeks.calls)
               ELSE Scenario("", ScenarioGex(df_scenario, spot,
                                             new_greeks.results["gamma"], contract_size),
                             new_greeks.calls) :
               new_greeks \in {compute_option_greeks(df_scenario, spot, rate)}})

\* scenario_time_decay: T - days_forward / 365 clipped at 0, in days
scenario_time_decay(df, spot, days_forward, rate, contract_size) ==
    LET reduced == SetColumn(df, "T",
                       [i \in 1..Len(df.rows) |->
                           IF df.rows[i].T - days_forward < 0 THEN 0
                           ELSE df.rows[i].T - days_forward])
        alive(r) == r.T > 0
        df_scenario == Filter(reduced, alive)
    IN  IF Len(df_scenario.rows) = 0 THEN Scenario("", LinSum(<<>>), <<>>)
        ELSE Only({
               IF new_greeks.err # ""
               THEN Scenario(new_greeks.err, LinSum(<<>>), new_greeks.calls)
               ELSE Scenario("", ScenarioGex(df_scenario, spot,
                                             new_greeks.results["gamma"], contract_size),
                             new_greeks.calls) :
               new_greeks \in {compute_option_greeks(df_scenario, spot, rate)}})

\* f'{shift:+.1%}': the shift in tenths of a percent, rounded to the nearest
FormatPct(shift) == (2 * shift + ShiftUnit \div 1000) \div (2 * (ShiftUnit \div 1000))

\* the three loops of scenario_all, each from the j-th requested value on:
\* the dict filled so far, or the exception that ended the loop
RECURSIVE SpotScenarios(_, _, _, _, _, _)
SpotScenarios(df, spot, spot_shifts, contract_size, done, j) ==
    IF j > Len(spot_shifts) THEN [err |-> "", dict |-> done]
    ELSE Only({
           IF r.err # "" THEN [err |-> r.err, dict |-> done]
           ELSE SpotScenarios(df, spot, spot_shifts, contract_size,
                    [k \in DOMAIN done \cup {FormatPct(spot_shifts[j])} |->
                        IF k = FormatPct(spot_shifts[j]) THEN r.val ELSE done[k]],
                    j + 1) :
           r \in {scenario_spot_shock(df, spot, spot_shifts[j], contract_size)}})

RECURSIVE VolScenarios(_, _, _, _, _, _, _)
VolScenarios(df, spot, vol_shifts, rate, contract_size, done, j) ==
    IF j > Len(vol_shifts) THEN [err |-> "", dict |-> done]
    ELSE Only({
           IF r.err # "" THEN [err |-> r.err, dict |-> done]
           ELSE VolScenarios(df, spot, vol_shifts, rate, contract_size,
                    [k \in DOMAIN done \cup {FormatPct(vol_shifts[j])} |->
                        IF k = FormatPct(vol_shifts[j]) THEN r.val ELSE done[k]],
                    j + 1) :
           r \in {scenario_vol_shock(df, spot, vol_shifts[j], rate, contract_size)}})

RECURSIVE TimeScenarios(_, _, _, _, _, _, _)
TimeScenarios(df, spot, time_days, rate, contract_size, done, j) ==
    IF j > Len(time_days) THEN [err |-> "", dict |-> done]
    ELSE Only({
           IF r.err # "" THEN [err |-> r.err, dict |-> done]
           ELSE TimeScenarios(df, spot, time_days, rate, contract_size,
                    [k \in DOMAIN done \cup {time_days[j]} |->
                        IF k = time_days[j] THEN r.val ELSE done[k]],
                    j + 1) :
           r \in {scenario_time_decay(df, spot, time_days[j], rate, contract_size)}})

NoScenarios == [k \in {} |-> 0]

\* what scenario_all gives back
AllResults(err, base_gex, spot_scenarios, vol_scenarios, time_scenarios) ==
    [err |-> err, base_gex |-> base_gex, spot_scenarios |-> spot_scenarios,
     vol_scenarios |-> vol_scenarios, time_scenarios |-> time_scenarios]

\* scenario_all
scenario_all(df, spot, spot_shifts, vol_shifts, time_days, rate, contract_size) ==
    IF "GEX" \notin df.cols
    THEN AllResults("KeyError: GEX", 0, NoScenarios, NoScenarios, NoScenarios)
    ELSE LET base_gex == SumSeq(Column(df, "GEX")) IN
    Only({
      IF ss.err # "" THEN AllResults(ss.err, base_gex, ss.dict, NoScenarios, NoScenarios)
      ELSE Only({
        IF vs.err # "" THEN AllResults(vs.err, base_gex, ss.dict, vs.dict, NoScenarios)
        ELSE Only({AllResults(ts.err, base_gex, ss.dict, vs.dict, ts.dict) :
                   ts \in {TimeScenarios(df, spot, time_days, rate, contract_size,
                                         NoScenarios, 1)}}) :
        vs \in {VolScenarios(df, spot, vol_shifts, rate, contract_size, NoScenarios, 1)}}) :
      ss \in {SpotScenarios(df, spot, spot_shifts, contract_size, NoScenarios, 1)}})

-----------------------------------------------------------------------------
(* core/advanced_gex.py: find_zero_gamma.  The bounds are carried in tenths  *)
(* (spot x bounds_pct x 10), the objective in hundredths.                    *)

\* A variant in which a contract's sign also flips once the spot is below its
\* strike (strikes in units of 1, s in tenths).
net_gamma_at_spot_strike_flip(df, s) ==
    SumSeq([i \in 1..Len(df.rows) |->
               (IF df.rows[i].type = "P" THEN -1 ELSE 1)
                   * (IF s < df.rows[i].strike * 10 THEN -1 ELSE 1)
                   * s * df.rows[i].gamma * df.rows[i].open_interest * s])

\* net_gamma_at_spot(spot): sum of spot * gamma * open_interest * 100 * spot
\* * 0.01, negated for puts
net_gamma_at_spot(df, s) ==
    SumSeq([i \in 1..Len(df.rows) |->
               (IF df.rows[i].type = "P" THEN -1 ELSE 1)
                   * s * df.rows[i].gamma * df.rows[i].open_interest * s])

\* what find_zero_gamma gives back: a spot price or None, the exception that
\* reached the caller ("" for none), and what was logged
ZeroGamma(found, v, err, log) == [found |-> found, v |-> v, err |-> err, log |-> log]

\* scipy.optimize.bisect(net_gamma_at_spot, a, b): a bound where f is zero is
\* returned, a bracket without a sign change raises ValueError; otherwise the
\* search ends at a point of the bracket where f is zero or changes sign
bisect(df, a, b) ==
    LET f(x) == net_gamma_at_spot(df, x)
    IN  IF f(a) = 0 THEN [err |-> "", v |-> a]
        ELSE IF f(b) = 0 THEN [err |-> "", v |-> b]
        ELSE IF (f(a) > 0) = (f(b) > 0) THEN [err |-> "ValueError", v |-> 0]
        ELSE [err |-> "",
              v |-> CHOOSE x \in a..b :
                       \/ f(x) = 0
                       \/ x < b /\ (f(x) > 0) # (f(x + 1) > 0)]

\* A variant that hands the bracket to bisect unchecked and outside the try block.
find_zero_gamma_unchecked(df, spot, bounds_pct) ==
    LET lower_bound == spot * bounds_pct[1]
        upper_bound == spot * bounds_pct[2]
        root == bisect(df, lower_bound, upper_bound)
    IN  IF root.err # "" THEN ZeroGamma(FALSE, 0, root.err, "")
        ELSE ZeroGamma(TRUE, root.v, "", "")

\* A variant that falls back to the current spot price when the bracket has
\* no sign change.
find_zero_gamma_spot_fallback(df, spot, bounds_pct) ==
    LET lower_bound == spot * bounds_pct[1]
        upper_bound == spot * bounds_pct[2]
    IN  IF ~({"gamma", "open_interest", "type"} \subseteq df.cols)
        THEN ZeroGamma(FALSE, 0, "", "error")
        ELSE LET f_low == net_gamma_at_spot(df, lower_bound)
                 f_high == net_gamma_at_spot(df, upper_bound)
                 root == bisect(df, lower_bound, upper_bound)
             IN  IF f_low * f_high > 0 THEN ZeroGamma(TRUE, spot * 10, "", "warning")
                 ELSE IF root.err # "" THEN ZeroGamma(FALSE, 0, "", "error")
                 ELSE ZeroGamma(TRUE, root.v, "", "")

\* find_zero_gamma(df, spot_price, bounds_pct): every exception of the try
\* block is logged and None is returned
find_zero_gamma(df, spot, bounds_pct) ==
    LET lower_bound == spot * bounds_pct[1]
        upper_bound == spot * bounds_pct[2]
    IN  IF ~({"gamma", "open_interest", "type"} \subseteq df.cols)
        THEN ZeroGamma(FALSE, 0, "", "error")
        ELSE LET f_low == net_gamma_at_spot(df, lower_bound)
                 f_high == net_gamma_at_spot(df, upper_bound)
                 root == bisect(df, lower_bound, upper_bound)
             IN  IF f_low * f_high > 0 THEN ZeroGamma(FALSE, 0, "", "warning")
                 ELSE IF root.err # "" THEN ZeroGamma(FALSE, 0, "", "error")
                 ELSE ZeroGamma(TRUE, root.v, "", "")

\* the iteration cap of scipy.optimize.bisect when the call of line 110 names
\* none
BisectMaxIter == 100

Half(x) == IF x < 0 THEN -((-x) \div 2) ELSE x \div 2

\* the loop of bisect from iteration i on: the step is halved, f is evaluated
\* at the new point, and the search ends when f is zero there, when the step
\* has fallen below the resolution, or when the cap is reached
RECURSIVE BisectLoop(_, _, _, _, _, _)
BisectLoop(df, xa, dm, f_a, i, evals) ==
    IF i > BisectMaxIter THEN evals
    ELSE LET xm == xa + Half(dm)
             f_m == net_gamma_at_spot(df, xm)
         IN  IF f_m = 0 \/ Half(dm) = 0 THEN Append(evals, xm)
             ELSE BisectLoop(df, IF f_m * f_a >= 0 THEN xm ELSE xa, Half(dm), f_a,
                             i + 1, Append(evals, xm))

\* the points at which bisect(net_gamma_at_spot, a, b) evaluates f: the two
\* ends, then the points of the loop when neither end is a zero and the signs
\* differ
bisect_evals(df, a, b) ==
    LET f_a == net_gamma_at_spot(df, a)
        f_b == net_gamma_at_spot(df, b)
    IN  IF f_a = 0 \/ f_b = 0 \/ (f_a > 0) = (f_b > 0) THEN <<a, b>>
        ELSE IF f_a < 0 THEN BisectLoop(df, a, b - a, f_a, 1, <<a, b>>)
        ELSE BisectLoop(df, b, a - b, f_a, 1, <<a, b>>)

\* A variant that, finding no sign change at the bounds, looks for one at every
\* thousandth of the spot across the bracket.
find_zero_gamma_evals_scan(df, spot, bounds_pct) ==
    LET lower_bound == spot * bounds_pct[1]
        upper_bound == spot * bounds_pct[2]
    IN  IF net_gamma_at_spot(df, lower_bound) * net_gamma_at_spot(df, upper_bound) > 0
        THEN <<lower_bound, upper_bound>>
                 \o [i \in 1..((upper_bound - lower_bound) * 100) |-> lower_bound]
        ELSE <<lower_bound, upper_bound>> \o bisect_evals(df, lower_bound, upper_bound)

\* the points at which one call of find_zero_gamma evaluates net_gamma_at_spot,
\* in order: lines 103-104, then line 110 unless line 108 returned
find_zero_gamma_evals(df, spot, bounds_pct) ==
    LET lower_bound == spot * bounds_pct[1]
        upper_bound == spot * bounds_pct[2]
    IN  IF ~({"gamma", "open_interest", "type"} \subseteq df.cols)
        THEN <<lower_bound>>
        ELSE IF net_gamma_at_spot(df, lower_bound) * net_gamma_at_spot(df, upper_bound) > 0
        THEN <<lower_bound, upper_bound>>
        ELSE <<lower_bound, upper_bound>> \o bisect_evals(df, lower_bound, upper_bound)

-----------------------------------------------------------------------------
(* The scenario engine, the Greeks and the solver as a state machine: a      *)
(* caller holds a snapshot with the columns type, strike, gamma,             *)
(* open_interest, T, iv and GEX and calls the functions on it.               *)

MaxScenContracts == 2
RiskFreeRate == 1

ScenSpots == {1, 2}
ScenContracts ==
    [type : Types, strike : {2}, gamma : Gammas, open_interest : {1},
     T : {7, 30}, iv : {250}]

ScenColumns == {"type", "strike", "gamma", "open_interest", "T", "iv", "GEX"}

\* the snapshot of the contracts cs at spot: GEX by the formula of
\* advanced_gex.py:29-32, index labels 0..n-1
ScenSnapshot(cs, spot) ==
    Frame(ScenColumns,
          [i \in 1..Len(cs) |->
              [type |-> cs[i].type, strike |-> cs[i].strike, gamma |-> cs[i].gamma,
               open_interest |-> cs[i].open_interest, T |-> cs[i].T, iv |-> cs[i].iv,
               GEX |-> (IF cs[i].type = "P" THEN -1 ELSE 1)
                           * spot * cs[i].gamma * cs[i].open_interest
                           * Hundredth(CONTRACT_SIZE) * spot,
               idx |-> i - 1]])

\* shifts of 5%, of 5.02% and of 0, in units of 1/5000; days forward
Shifts == {-251, -250, 0, 250, 251}
DayCounts == {7, 14, 30}

\* what scenario_all is asked for: nothing, the defaults, two spot shifts that
\* print as the same percentage, a repeated value, no volatility shift
Requests ==
    {[spot_shifts |-> <<>>, vol_shifts |-> <<>>, time_days |-> <<>>],
     [spot_shifts |-> <<-250, 250>>, vol_shifts |-> <<-250, 250>>, time_days |-> <<7, 14>>],
     [spot_shifts |-> <<250, 251>>, vol_shifts |-> <<>>, time_days |-> <<30>>],
     [spot_shifts |-> <<250, 250>>, vol_shifts |-> <<>>, time_days |-> <<30, 30>>],
     [spot_shifts |-> <<0>>, vol_shifts |-> <<>>, time_days |-> <<30, 7>>]}

\* brackets of find_zero_gamma, in tenths: the default (0.8, 1.2), and (0, 1.2)
Brackets == {<<8, 12>>, <<0, 12>>}

SpotShock(shift) ==
    /\ view' = [op |-> "spot_shock", arg |-> shift,
                val |-> scenario_spot_shock(option_data, spot_price, shift, CONTRACT_SIZE)]
    /\ UNCHANGED <<otherVars, option_data, spot_price, built, ncalc, timeVars, storeVars, fetchVars>>

VolShock(shift) ==
    /\ view' = [op |-> "vol_shock", arg |-> shift,
                val |-> scenario_vol_shock(option_data, spot_price, shift, RiskFreeRate,
                                           CONTRACT_SIZE)]
    /\ UNCHANGED <<otherVars, option_data, spot_price, built, ncalc, timeVars, storeVars, fetchVars>>

TimeDecay(days) ==
    /\ view' = [op |-> "time_decay", arg |-> days,
                val |-> scenario_time_decay(option_data, spot_price, days, RiskFreeRate,
                                            CONTRACT_SIZE)]
    /\ UNCHANGED <<otherVars, option_data, spot_price, built, ncalc, timeVars, storeVars, fetchVars>>

RunAll(req) ==
    /\ view' = [op |-> "all", arg |-> req,
                val |-> scenario_all(option_data, spot_price, req.spot_shifts,
                                     req.vol_shifts, req.time_days, RiskFreeRate,
                                     CONTRACT_SIZE)]
    /\ UNCHANGED <<otherVars, option_data, spot_price, built, ncalc, timeVars, storeVars, fetchVars>>

BlackScholes(K, T, sigma, option_type) ==
    /\ view' = [op |-> "greeks",
                arg |-> [S |-> spot_price, K |-> K, T |-> T, r |-> RiskFreeRate,
                         sigma |-> sigma, option_type |-> option_type],
                val |-> black_scholes_greeks(spot_price, K, T, RiskFreeRate, sigma,
                                             option_type)]
    /\ UNCHANGED <<otherVars, option_data, spot_price, built, ncalc, timeVars, storeVars, fetchVars>>

ComputeOptionGreeks ==
    /\ view' = [op |-> "batch", arg |-> 0,
                val |-> compute_option_greeks(option_data, spot_price, RiskFreeRate)]
    /\ UNCHANGED <<otherVars, option_data, spot_price, built, ncalc, timeVars, storeVars, fetchVars>>

FindZeroGamma(bounds_pct) ==
    /\ view' = [op |-> "zero_gamma", arg |-> bounds_pct,
                val |-> find_zero_gamma(option_data, spot_price, bounds_pct),
                evals |-> find_zero_gamma_evals(option_data, spot_price, bounds_pct)]
    /\ UNCHANGED <<otherVars, option_data, spot_price, built, ncalc, timeVars, storeVars, fetchVars>>

ScenInit ==
    /\ OtherIdle
    /\ \E spot \in ScenSpots, cs \in SeqsUpTo(ScenContracts, MaxScenContracts) :
          /\ spot_price = spot
          /\ option_data = ScenSnapshot(cs, spot)
    /\ built = FALSE /\ ncalc = 0 /\ view = NoView
    /\ today = 0 /\ now = 0
    /\ StoreIdle /\ FetchIdle

ScenNext ==
    \/ \E shift \in Shifts : SpotShock(shift)
    \/ \E shift \in Shifts : VolShock(shift)
    \/ \E days \in DayCounts : TimeDecay(days)
    \/ \E req \in Requests : RunAll(req)
    \/ \E K \in {0, 2}, T \in {-1, 0, 30}, sigma \in {-250, 0, 250}, ty \in Types :
          BlackScholes(K, T, sigma, ty)
    \/ ComputeOptionGreeks
    \/ \E b \in Brackets : FindZeroGamma(b)

SpecScen == ScenInit /\ [][ScenNext]_vars

-----------------------------------------------------------------------------
(* Claims about the scenarios, the Greeks and the zero-gamma solver.         *)

\* the sum over the contracts of gamma x 100 x open_interest x s, negated for
\* puts: the total GEX of calculator.py:25-43 at spot s
NotionalAt(df, s) ==
    SumSeq([i \in 1..Len(df.rows) |->
               (IF df.rows[i].type = "P" THEN -1 ELSE 1)
                   * df.rows[i].gamma * CONTRACT_SIZE * df.rows[i].open_interest * s])

\* C13: a spot shock returns newSpot = spot x (1 + pct) and the total GEX of
\* the contracts at newSpot, the sum of gamma x 100 x open_interest x newSpot
\* negated for puts; with pct = 0 that is the snapshot's total GEX.  (The
\* shocked spot is in units of 1/5000 and the scenario's GEX in units of
\* 1/5000^2.)
C13_SpotShockIsTotalAtNewSpot ==
    view.op = "spot_shock" =>
        LET new_spot == spot_price * (ShiftUnit + view.arg)
        IN  /\ view.val.err = ""
            /\ view.val.val.spot = new_spot
            /\ view.val.val.gex % ShiftUnit = 0
            /\ view.val.val.gex \div ShiftUnit = NotionalAt(option_data, new_spot)

\* the contracts that survive days_forward days, in snapshot order
Survivors(df, days_forward) ==
    SelectSeq(df.rows, LAMBDA r : r.T - days_forward > 0)

\* the signed GEX of the rows with the gamma of black_scholes_greeks at the
\* reduced time
DecayedGex(rows, spot, days_forward, rate, contract_size) ==
    LinSum([i \in 1..Len(rows) |->
               LinItem((IF rows[i].type = "P" THEN -1 ELSE 1)
                           * spot * rows[i].open_interest * Hundredth(contract_size) * spot,
                       black_scholes_greeks(spot, rows[i].strike, rows[i].T - days_forward,
                                            rate, rows[i].iv, rows[i].type).greeks["gamma"])])

\* C14: when at least one contract survives, time decay returns the signed GEX
\* summed over exactly the surviving contracts, each with its gamma recomputed
\* at the reduced time, wherever the dropped contracts sit in the snapshot.
C14_TimeDecaySumsSurvivors ==
    (view.op = "time_decay" /\ Survivors(option_data, view.arg) # <<>>) =>
        /\ view.val.err = ""
        /\ view.val.val = DecayedGex(Survivors(option_data, view.arg), spot_price,
                                     view.arg, RiskFreeRate, CONTRACT_SIZE)

\* C15: time decay by at least every contract's remaining time returns a total
\* GEX of exactly 0, evaluates no Greeks and raises nothing, for every
\* snapshot, the empty one included.
C15_NoSurvivorIsZero ==
    (view.op = "time_decay" /\ Survivors(option_data, view.arg) = <<>>) =>
        /\ view.val.err = ""
        /\ view.val.val = LinSum(<<>>)
        /\ view.val.calls = <<>>

\* time decay by exactly the remaining time of one contract and more than that
\* of another has been asked of a snapshot
C15_Witness ==
    /\ view.op = "time_decay"
    /\ Survivors(option_data, view.arg) = <<>>
    /\ \E i, j \in 1..Len(option_data.rows) :
          option_data.rows[i].T = view.arg /\ option_data.rows[j].T < view.arg

\* C16: the batch returns for each contract and each of the nine Greeks the
\* value black_scholes_greeks gives for that contract's own inputs.
C16_BatchIsPerContract ==
    view.op = "batch" =>
        /\ view.val.err = ""
        /\ \A i \in 1..Len(option_data.rows), k \in 1..Len(GreekOrder) :
              /\ GreekOrder[k] \in DOMAIN view.val.results
              /\ view.val.results[GreekOrder[k]][i]
                    = black_scholes_greeks(spot_price, option_data.rows[i].strike,
                                           option_data.rows[i].T, RiskFreeRate,
                                           option_data.rows[i].iv,
                                           option_data.rows[i].type).greeks[GreekOrder[k]]

\* C17: black_scholes_greeks with a volatility that is zero or negative and a
\* positive time to expiry fails with an error and never returns Greeks.
C17_NonPositiveVolFails ==
    (view.op = "greeks" /\ view.arg.sigma <= 0 /\ view.arg.T > 0) =>
        view.val.err # ""

\* C18: black_scholes_greeks with a time to expiry that is zero or negative
\* returns all nine Greeks exactly zero and raises nothing, whatever the
\* spot, strike, rate, option type and volatility.
C18_ExpiredIsAllZero ==
    (view.op = "greeks" /\ view.arg.T <= 0) =>
        /\ view.val.err = ""
        /\ DOMAIN view.val.greeks = Range(GreekOrder)
        /\ \A g \in DOMAIN view.val.greeks : view.val.greeks[g] = Num(0)

\* black_scholes_greeks has been called at expiry with a zero strike and a
\* zero volatility
C18_Witness ==
    /\ view.op = "greeks"
    /\ view.arg.T = 0 /\ view.arg.K = 0 /\ view.arg.sigma = 0

\* C19: scenario_all returns the baseline and, in each of the three dicts, as
\* many entries as distinct values were requested, each entry being what the
\* single scenario returns when called alone on the same snapshot.
C19_OneResultPerRequestedValue ==
    view.op = "all" =>
        LET req == view.arg
            res == view.val
        IN  /\ res.err = ""
            /\ res.base_gex = SumSeq(Column(option_data, "GEX"))
            /\ Cardinality(DOMAIN res.spot_scenarios) = Cardinality(Range(req.spot_shifts))
            /\ Cardinality(DOMAIN res.vol_scenarios) = Cardinality(Range(req.vol_shifts))
            /\ Cardinality(DOMAIN res.time_scenarios) = Cardinality(Range(req.time_days))
            /\ \A x \in Range(req.spot_shifts) :
                  /\ FormatPct(x) \in DOMAIN res.spot_scenarios
                  /\ res.spot_scenarios[FormatPct(x)]
                        = scenario_spot_shock(option_data, spot_price, x, CONTRACT_SIZE).val
            /\ \A x \in Range(req.vol_shifts) :
                  /\ FormatPct(x) \in DOMAIN res.vol_scenarios
                  /\ res.vol_scenarios[FormatPct(x)]
                        = scenario_vol_shock(option_data, spot_price, x, RiskFreeRate,
                                             CONTRACT_SIZE).val
            /\ \A x \in Range(req.time_days) :
                  /\ x \in DOMAIN res.time_scenarios
                  /\ res.time_scenarios[x]
                        = scenario_time_decay(option_data, spot_price, x, RiskFreeRate,
                                              CONTRACT_SIZE).val

\* f at the two bounds of the bracket find_zero_gamma was given
BoundValues ==
    [low |-> net_gamma_at_spot(option_data, spot_price * view.arg[1]),
     high |-> net_gamma_at_spot(option_data, spot_price * view.arg[2])]

SameSign(x, y) == (x > 0 /\ y > 0) \/ (x < 0 /\ y < 0)

\* C20: when f has the same sign at the lower and the upper bound,
\* find_zero_gamma returns None and no exception reaches the caller.
C20_NoSignChangeIsAbsent ==
    (view.op = "zero_gamma" /\ SameSign(BoundValues.low, BoundValues.high)) =>
        /\ view.val.found = FALSE
        /\ view.val.err = ""

\* find_zero_gamma has been called on a snapshot whose f is negative at both
\* bounds
C20_Witness ==
    /\ view.op = "zero_gamma"
    /\ BoundValues.low < 0 /\ BoundValues.high < 0

OppositeSign(x, y) == (x > 0 /\ y < 0) \/ (x < 0 /\ y > 0)

NetGamma(df) ==
    SumSeq([i \in 1..Len(df.rows) |->
               (IF df.rows[i].type = "P" THEN -1 ELSE 1)
                   * df.rows[i].gamma * df.rows[i].open_interest])

\* the spots of the grid, in tenths, up to the largest upper bound
GridSpots == 0..24

\* C30: the objective of find_zero_gamma is f(spot) = spot^2 x C with C the
\* signed sum of gamma x open_interest, whatever the spot; so on a bracket of
\* positive bounds find_zero_gamma returns None for every snapshot with
\* C # 0, and returns a spot price only when C = 0.
C30_ObjectiveNeverChangesSign ==
    view.op = "zero_gamma" =>
        /\ \A s \in GridSpots :
              net_gamma_at_spot(option_data, s) = s * s * NetGamma(option_data)
        /\ (view.arg[1] > 0 /\ view.arg[2] > 0) =>
              /\ NetGamma(option_data) # 0 => ~view.val.found
              /\ view.val.found => NetGamma(option_data) = 0

\* find_zero_gamma has returned None on a bracket of positive bounds for a
\* snapshot that holds a call and a put and has C # 0
C30_Witness ==
    /\ view.op = "zero_gamma"
    /\ view.arg[1] > 0 /\ view.arg[2] > 0
    /\ NetGamma(option_data) # 0
    /\ \E i, j \in 1..Len(option_data.rows) :
          option_data.rows[i].type = "C" /\ option_data.rows[j].type = "P"
    /\ ~view.val.found

\* C22: find_zero_gamma ends after at most a fixed number of evaluations of
\* f, for every snapshot and every bracket: the two evaluations at the bounds,
\* then a search of at most two more evaluations and one per iteration up to
\* the iteration cap.
C22_BoundedEvaluations ==
    view.op = "zero_gamma" =>
        /\ Len(view.evals) <= 2 + 2 + BisectMaxIter
        /\ Len(view.evals) >= 2
        /\ view.evals[1] = spot_price * view.arg[1]
        /\ view.evals[2] = spot_price * view.arg[2]

\* find_zero_gamma has gone on to the search for a snapshot that is not empty
C22_Witness ==
    /\ view.op = "zero_gamma"
    /\ option_data.rows # <<>>
    /\ Len(view.evals) > 2

-----------------------------------------------------------------------------
(* core/flow.py: compare_oi_changes.  Text is carried as the sequence of its *)
(* character codes, so that keys compare and sort as Python strings do.      *)

MaxFlowContracts == 2

RECURSIVE Digits(_)
\* str(n) for a whole number n >= 0
Digits(n) == IF n < 10 THEN <<48 + n>> ELSE Digits(n \div 10) \o <<48 + (n % 10)>>

\* astype(str) of a cell: the type letter, a float64 strike ("85.0"), and an
\* expiration, whose day number stands for the date text
StrType(t) == IF t = "C" THEN <<67>> ELSE <<80>>
StrFloat(x) == Digits(x) \o <<46, 48>>
StrDate(d) == Digits(d)

\* create_key: '_'.join over type, strike, expiration
create_key(row) ==
    StrType(row.type) \o <<95>> \o StrFloat(row.strike) \o <<95>> \o StrDate(row.expiration)

RECURSIVE LexLess(_, _)
\* a < b for Python strings
LexLess(a, b) ==
    IF b = <<>> THEN FALSE
    ELSE IF a = <<>> THEN TRUE
    ELSE IF Head(a) # Head(b) THEN Head(a) < Head(b)
    ELSE LexLess(Tail(a), Tail(b))

RECURSIVE SortedKeys(_)
SortedKeys(S) ==
    IF S = {} THEN <<>>
    ELSE LET m == CHOOSE x \in S : \A y \in S \ {x} : LexLess(x, y)
         IN  <<m>> \o SortedKeys(S \ {m})

RECURSIVE Concat(_)
Concat(ss) == IF ss = <<>> THEN <<>> ELSE Head(ss) \o Concat(Tail(ss))

\* the rows of pd.merge(left, right, on='option_key', how=how) for one key:
\* every pairing of the left and right rows that carry it, and a row with
\* not-a-number on the side that lacks it where how keeps such rows
MergeKey(left, right, k, how) ==
    LET ls == SelectSeq(left, LAMBDA r : r.option_key = k)
        rs == SelectSeq(right, LAMBDA r : r.option_key = k)
    IN  IF ls # <<>> /\ rs # <<>>
        THEN Concat([i \in 1..Len(ls) |->
                        [j \in 1..Len(rs) |->
                            [option_key |-> k,
                             open_interest_today |-> Cell(ls[i].open_interest),
                             GEX |-> Cell(ls[i].GEX),
                             open_interest_yday |-> Cell(rs[j].open_interest)]]])
        ELSE IF ls # <<>>
        THEN IF how \in {"outer", "left"}
             THEN [i \in 1..Len(ls) |->
                      [option_key |-> k,
                       open_interest_today |-> Cell(ls[i].open_interest),
                       GEX |-> Cell(ls[i].GEX), open_interest_yday |-> NaNCell]]
             ELSE <<>>
        ELSE IF how \in {"outer", "right"}
             THEN [j \in 1..Len(rs) |->
                      [option_key |-> k, open_interest_today |-> NaNCell,
                       GEX |-> NaNCell,
                       open_interest_yday |-> Cell(rs[j].open_interest)]]
             ELSE <<>>

\* pd.merge on option_key: the keys in lexicographic order
Merge(left, right, how) ==
    LET ks == SortedKeys({left[i].option_key : i \in 1..Len(left)}
                         \cup {right[i].option_key : i \in 1..Len(right)})
    IN  Concat([n \in 1..Len(ks) |-> MergeKey(left, right, ks[n], how)])

\* fillna(0) of one cell
FillNa(c) == IF c.nan THEN 0 ELSE c.v

\* lines 32-58 for a merge of kind how
CompareWith(today_df, yday_df, how) ==
    LET withKey(df) == [i \in 1..Len(df.rows) |->
                           [option_key |-> create_key(df.rows[i]),
                            open_interest |-> df.rows[i].open_interest,
                            GEX |-> IF "GEX" \in df.cols THEN df.rows[i].GEX ELSE 0]]
        merged == Merge(withKey(today_df), withKey(yday_df), how)
    IN  [i \in 1..Len(merged) |->
            LET t == FillNa(merged[i].open_interest_today)
                y == FillNa(merged[i].open_interest_yday)
            IN  [option_key |-> merged[i].option_key,
                 open_interest_today |-> t,
                 GEX |-> FillNa(merged[i].GEX),
                 open_interest_yday |-> y,
                 oi_change |-> t - y,
                 \* (oi_change / open_interest_yday.replace(0, 1)) * 100
                 oi_change_pct |-> [num |-> (t - y) * 100,
                                    den |-> IF y = 0 THEN 1 ELSE y]]]

\* A variant that merges with how='inner'.
compare_oi_changes_inner(today_df, yday_df) ==
    IF "GEX" \notin today_df.cols THEN [err |-> "KeyError: GEX", rows |-> <<>>]
    ELSE [err |-> "", rows |-> CompareWith(today_df, yday_df, "inner")]

\* compare_oi_changes(df_today, df_yesterday) with the default option_key
compare_oi_changes(today_df, yday_df) ==
    IF "GEX" \notin today_df.cols THEN [err |-> "KeyError: GEX", rows |-> <<>>]
    ELSE [err |-> "", rows |-> CompareWith(today_df, yday_df, "outer")]

FlowColumns == {"type", "strike", "expiration", "open_interest", "GEX"}

\* today's contracts and yesterday's: the same keys, yesterday's open interest
\* zero or not
FlowToday ==
    {[type |-> t, strike |-> k, expiration |-> 30, open_interest |-> 3,
      GEX |-> (IF t = "P" THEN -1 ELSE 1) * 3 * k] : t \in Types, k \in {85, 100}}

FlowYesterday ==
    {[type |-> t, strike |-> k, expiration |-> 30, open_interest |-> oi,
      GEX |-> (IF t = "P" THEN -1 ELSE 1) * oi * k] :
        t \in Types, k \in {85, 100}, oi \in {0, 5}}

CompareOIChanges ==
    /\ view' = [op |-> "oi_changes", val |-> compare_oi_changes(option_data, df_yesterday)]
    /\ UNCHANGED <<option_data, spot_price, built, ncalc, timeVars, storeVars, fetchVars,
                   otherVars>>

FlowInit ==
    /\ option_data \in {Frame(FlowColumns, rs) : rs \in SeqsUpTo(FlowToday, MaxFlowContracts)}
    /\ df_yesterday \in {Frame(FlowColumns, rs) :
                            rs \in SeqsUpTo(FlowYesterday, MaxFlowContracts)}
    /\ spot_price = 0 /\ built = FALSE /\ ncalc = 0 /\ view = NoView
    /\ today = 0 /\ now = 0
    /\ StoreIdle /\ FetchIdle /\ LiveIdle /\ RaceIdle

FlowNext == CompareOIChanges

SpecFlow == FlowInit /\ [][FlowNext]_vars

\* the (type, strike, expiration) keys of a frame
OptionKeys(df) ==
    {<<df.rows[i].type, df.rows[i].strike, df.rows[i].expiration>> :
        i \in 1..Len(df.rows)}

UniqueKeys(df) == Cardinality(OptionKeys(df)) = Len(df.rows)

\* the open interest of key k in df, 0 when df has no such contract
OpenInterestOf(df, k) ==
    IF k \in OptionKeys(df)
    THEN (CHOOSE r \in Range(df.rows) :
             <<r.type, r.strike, r.expiration>> = k).open_interest
    ELSE 0

KeyText(k) == create_key([type |-> k[1], strike |-> k[2], expiration |-> k[3]])

-----------------------------------------------------------------------------
(* data/storage.py: get_historical_gex and analyze_gex_vs_price, read from   *)
(* the daily_gex table of a database file that holds earlier days.           *)

MaxHistDay == 2

RECURSIVE GCD(_, _)
GCD(a, b) == IF b = 0 THEN a ELSE GCD(b, a % b)

\* the float num / den (den > 0), kept exact and in lowest terms
Ratio(num, den) ==
    LET g == GCD(Abs(num), den)
    IN  [nan |-> FALSE, num |-> num \div g, den |-> den \div g]

NaNRatio == [nan |-> TRUE, num |-> 0, den |-> 1]

\* SELECT ... FROM daily_gex WHERE date >= date('now', '-<days> days')
\* ORDER BY date
get_historical_gex(daily, day, days) ==
    LET ds == SortedSeq({r.date : r \in {x \in daily : x.date >= day - days}})
    IN  [i \in 1..Len(ds) |-> CHOOSE r \in daily : r.date = ds[i]]

\* Series.pct_change() of a column of positive numbers: not-a-number on the
\* first row, then (x[i] - x[i-1]) / x[i-1]
pct_change(xs) ==
    [i \in 1..Len(xs) |->
        IF i = 1 THEN NaNRatio ELSE Ratio(xs[i] - xs[i - 1], xs[i - 1])]

\* np.percentile(xs, p) times 100: linear interpolation between the two
\* order statistics around position p / 100 * (n - 1)
Percentile100(xs, p) ==
    LET sorted == [i \in 1..Len(xs) |->
                      CHOOSE x \in Range(xs) :
                          /\ Cardinality({j \in 1..Len(xs) : xs[j] < x}) < i
                          /\ Cardinality({j \in 1..Len(xs) : xs[j] <= x}) >= i]
        pos == p * (Len(xs) - 1)
        lo == pos \div 100 + 1
        frac == pos % 100
    IN  IF frac = 0 THEN 100 * sorted[lo]
        ELSE 100 * sorted[lo] + frac * (sorted[lo + 1] - sorted[lo])

RECURSIVE SumRatios(_)
SumRatios(rs) ==
    IF rs = <<>> THEN Ratio(0, 1)
    ELSE LET t == SumRatios(Tail(rs))
         IN  Ratio(Head(rs).num * t.den + t.num * Head(rs).den, Head(rs).den * t.den)

\* Series.mean(): the mean of the values that are numbers, not-a-number when
\* there is none
Mean(rs) ==
    LET nums == SelectSeq(rs, LAMBDA r : ~r.nan)
    IN  IF nums = <<>> THEN NaNRatio
        ELSE LET t == SumRatios(nums) IN Ratio(t.num, t.den * Len(nums))

\* series.loc[mask]
Masked(xs, mask) ==
    LET idx == SortedSeq({i \in 1..Len(xs) : mask[i]})
    IN  [n \in 1..Len(idx) |-> xs[idx[n]]]

\* the price changes averaged for the days of mask, as lines 162-167 take them
PriceChangesOf(price_change, mask) == Mean(Masked(price_change, mask))

\* analyze_gex_vs_price(days); the correlation coefficient is left out
analyze_gex_vs_price(daily, day, days) ==
    LET historical_data == get_historical_gex(daily, day, days)
        n == Len(historical_data)
    IN  IF n < 2 THEN [none |-> TRUE]
        ELSE LET spot == [i \in 1..n |-> historical_data[i].spot_price]
                 gex == [i \in 1..n |-> historical_data[i].total_gex]
                 price_change == pct_change(spot)
                 p75 == Percentile100(gex, 75)
                 p25 == Percentile100(gex, 25)
             IN  [none |-> FALSE,
                  gex_percentiles |-> [p \in {25, 50, 75, 90, 95} |-> Percentile100(gex, p)],
                  price_changes |->
                      [high_gex |-> PriceChangesOf(price_change,
                                                   [i \in 1..n |-> 100 * gex[i] > p75]),
                       low_gex |-> PriceChangesOf(price_change,
                                                  [i \in 1..n |-> 100 * gex[i] < p25])]]

\* the rows an earlier day can have left in daily_gex
HistGex == {10, 20, 30}
HistSpots == {90, 100}

StoredDay(d, g, p) ==
    [date |-> d, total_gex |-> g, call_gex |-> g, put_gex |-> 0, spot_price |-> p,
     weighted_expiry |-> 30]

\* one row or none for every day 0..MaxHistDay (date is the primary key)
HistTables ==
    {{StoredDay(d, c[d][1], c[d][2]) : d \in {x \in 0..MaxHistDay : c[x] # <<>>}} :
        c \in [0..MaxHistDay -> {<<>>} \cup (HistGex \X HistSpots)]}

AnalyzeGexVsPrice(days) ==
    /\ view' = [op |-> "analyze", arg |-> days,
                val |-> analyze_gex_vs_price(daily_gex, today, days)]
    /\ UNCHANGED <<option_data, spot_price, built, ncalc, timeVars, storeVars, fetchVars,
                   otherVars>>

HistInit ==
    /\ CalcIdle /\ FetchIdle /\ OtherIdle
    /\ today = MaxHistDay /\ now = 0
    /\ daily_gex \in HistTables
    /\ strike_gex = {} /\ store_op = NoStoreOp /\ intended = <<>>

HistNext == \E days \in {1, 30} : AnalyzeGexVsPrice(days)

SpecHist == HistInit /\ [][HistNext]_vars

\* the rows analyze_gex_vs_price read at its last call
Window == get_historical_gex(daily_gex, today, view.arg)

\* the mean, over the days of the window that satisfy regime and have a
\* following day, of the price change from that day to the following one
FollowingChange(regime(_)) ==
    LET n == Len(Window)
        idx == SortedSeq({i \in 1..(n - 1) : regime(i)})
    IN  Mean([k \in 1..Len(idx) |->
                 Ratio(Window[idx[k] + 1].spot_price - Window[idx[k]].spot_price,
                       Window[idx[k]].spot_price)])

WindowGex == [i \in 1..Len(Window) |-> Window[i].total_gex]

\* C24: the price change analyze_gex_vs_price reports for the high (low)
\* regime is the mean, over the days whose total GEX is above the 75th (below
\* the 25th) percentile of the window, of the price change from that day to
\* the following day.
C24_FollowingDayChange ==
    (view.op = "analyze" /\ ~view.val.none) =>
        /\ view.val.price_changes.high_gex
              = FollowingChange(LAMBDA i : 100 * WindowGex[i] > Percentile100(WindowGex, 75))
        /\ view.val.price_changes.low_gex
              = FollowingChange(LAMBDA i : 100 * WindowGex[i] < Percentile100(WindowGex, 25))

\* the option types of the contracts of chain at strike k
TypesAt(chain, k) == {r.type : r \in {x \in Range(chain.rows) : x.strike = k}}

C26_SnapshotUnchanged == [][option_data' = option_data]_vars

-----------------------------------------------------------------------------
(* data/realtime.py: RealtimeGEXHandler.  start() gathers two tasks on one   *)
(* event loop, so a step runs from one await to the next; the WebSocket      *)
(* client calls _handle_option_trade for every trade it receives.            *)

\* MAX_QUEUE_SIZE = 10000 and BATCH_SIZE = 100 of realtime_config.py:18-19,
\* scaled down
MAX_QUEUE_SIZE == 3
BATCH_SIZE == 2
UPDATE_INTERVAL == 1

MaxTrades == 4
MaxClock == 2

\* deque(maxlen=MAX_QUEUE_SIZE).append(x): a full deque discards its leftmost
\* item
DequeAppend(queue, x) ==
    IF Len(queue) >= MAX_QUEUE_SIZE THEN Tail(queue) \o <<x>> ELSE Append(queue, x)

\* A variant that discards the arriving trade when the queue is full.
handle_option_trade_drop_new(queue, trade, market_hours) ==
    IF ~market_hours \/ Len(queue) >= MAX_QUEUE_SIZE THEN queue
    ELSE Append(queue, [option |-> trade.symbol, price |-> trade.price,
                        size |-> trade.size, timestamp |-> trade.timestamp])

\* _handle_option_trade(trade): the queue afterwards
handle_option_trade(queue, trade, market_hours) ==
    IF ~market_hours THEN queue
    ELSE DequeAppend(queue, [option |-> trade.symbol, price |-> trade.price,
                             size |-> trade.size, timestamp |-> trade.timestamp])

RECURSIVE PopBatch(_, _)
\* lines 99-101: popleft() into updates while the batch is short and the
\* queue is not empty
PopBatch(updates, queue) ==
    IF Len(updates) < BATCH_SIZE /\ queue # <<>>
    THEN PopBatch(Append(updates, Head(queue)), Tail(queue))
    ELSE [updates |-> updates, queue |-> queue]

\* _recalculate_gex(): nothing on an empty queue; _update_option_data is
\* empty and gex_calculator is None, so the batch is only taken off the queue
recalculate_gex(queue) ==
    IF queue = <<>> THEN [updates |-> <<>>, queue |-> queue, ran |-> FALSE]
    ELSE [updates |-> PopBatch(<<>>, queue).updates,
          queue |-> PopBatch(<<>>, queue).queue, ran |-> TRUE]

\* A variant whose loop recalculates first and tests the flag afterwards.
process_updates_test_last(is_running, queue, last, t) ==
    IF t - last >= UPDATE_INTERVAL
    THEN [exit |-> ~is_running, queue |-> recalculate_gex(queue).queue, last |-> t,
          updates |-> recalculate_gex(queue).updates, ran |-> recalculate_gex(queue).ran]
    ELSE [exit |-> ~is_running, queue |-> queue, last |-> last, updates |-> <<>>,
          ran |-> FALSE]

\* _process_updates(): one pass from the test of `while self.running` to the
\* sleep of line 91, at time t
process_updates(is_running, queue, last, t) ==
    IF ~is_running
    THEN [exit |-> TRUE, queue |-> queue, last |-> last, updates |-> <<>>, ran |-> FALSE]
    ELSE IF t - last >= UPDATE_INTERVAL
    THEN [exit |-> FALSE, queue |-> recalculate_gex(queue).queue, last |-> t,
          updates |-> recalculate_gex(queue).updates, ran |-> recalculate_gex(queue).ran]
    ELSE [exit |-> FALSE, queue |-> queue, last |-> last, updates |-> <<>>, ran |-> FALSE]

\* the trade the client delivers as the n-th
Trade(n) == [symbol |-> "O:SPY", price |-> 1, size |-> 1, timestamp |-> n]

NoTasks == [ws |-> "idle", proc |-> "idle", stop |-> "idle", closed |-> FALSE]

\* ntrades: trades delivered; hours: whether the last one came in market
\* hours; accepted: trades delivered in market hours; recalcs:
\* recalculations that took a batch; last: the last batch; flagged: stop()
\* has cleared the flag
NoBatches == [ntrades |-> 0, hours |-> FALSE, accepted |-> 0, recalcs |-> 0,
              last |-> <<>>, flagged |-> FALSE]

LiveFrame ==
    UNCHANGED <<calcVars, today, storeVars, fetchVars, flowVars, raceVars>>

\* start(): lines 35-50, up to the first await of the two tasks
Start ==
    /\ tasks.ws = "idle"
    /\ running' = TRUE
    /\ tasks' = [tasks EXCEPT !.ws = "connect", !.proc = "loop"]
    /\ UNCHANGED <<update_queue, last_calculation, batches, now>>
    /\ LiveFrame

\* the client delivers a trade, in market hours or outside them
HandleOptionTrade(market_hours) ==
    /\ tasks.ws \in {"connect", "loop"} /\ ~tasks.closed
    /\ batches.ntrades < MaxTrades
    /\ update_queue' = handle_option_trade(update_queue, Trade(batches.ntrades + 1),
                                           market_hours)
    /\ batches' = [batches EXCEPT !.ntrades = @ + 1, !.hours = market_hours,
                                  !.accepted = IF market_hours THEN @ + 1 ELSE @]
    /\ UNCHANGED <<running, last_calculation, tasks, now>>
    /\ LiveFrame

\* line 61 returns: the loop of lines 62-63 is entered, or left at once when
\* the flag is already cleared
WebsocketConnected ==
    /\ tasks.ws = "connect"
    /\ tasks' = [tasks EXCEPT !.ws = IF running THEN "loop" ELSE "done"]
    /\ UNCHANGED <<update_queue, running, last_calculation, batches, now>>
    /\ LiveFrame

\* line 61 raises: lines 64-66 log and run stop() up to its await
WebsocketError ==
    /\ tasks.ws = "connect"
    /\ running' = FALSE
    /\ tasks' = [tasks EXCEPT !.ws = "stopping", !.closed = TRUE]
    /\ batches' = [batches EXCEPT !.flagged = TRUE]
    /\ UNCHANGED <<update_queue, last_calculation, now>>
    /\ LiveFrame

\* client.close() of line 56 ends, normally or not, and the task with it
WebsocketStopped ==
    /\ tasks.ws = "stopping"
    /\ tasks' = [tasks EXCEPT !.ws = "done"]
    /\ UNCHANGED <<update_queue, running, last_calculation, batches, now>>
    /\ LiveFrame

\* lines 62-63: the task wakes from its sleep and tests the flag
RunWebsocket ==
    /\ tasks.ws = "loop"
    /\ ~running
    /\ tasks' = [tasks EXCEPT !.ws = "done"]
    /\ UNCHANGED <<update_queue, running, last_calculation, batches, now>>
    /\ LiveFrame

\* lines 86-91: the consumer wakes from its sleep and makes one pass
ProcessUpdates ==
    /\ tasks.proc = "loop"
    /\ \E r \in {process_updates(running, update_queue, last_calculation, now)} :
          /\ update_queue' = r.queue
          /\ last_calculation' = r.last
          /\ tasks' = [tasks EXCEPT !.proc = IF r.exit THEN "done" ELSE "loop"]
          /\ batches' = IF r.ran
                        THEN [batches EXCEPT !.recalcs = @ + 1, !.last = r.updates]
                        ELSE batches
    /\ UNCHANGED <<running, now>>
    /\ LiveFrame

\* stop() called by the owner of the handler: lines 54-56 up to the await
Stop ==
    /\ tasks.ws # "idle" /\ tasks.stop = "idle"
    /\ running' = FALSE
    /\ tasks' = [tasks EXCEPT !.stop = "closing", !.closed = TRUE]
    /\ batches' = [batches EXCEPT !.flagged = TRUE]
    /\ UNCHANGED <<update_queue, last_calculation, now>>
    /\ LiveFrame

\* client.close() of line 56 ends for the owner
Stopped ==
    /\ tasks.stop = "closing"
    /\ tasks' = [tasks EXCEPT !.stop = "done"]
    /\ UNCHANGED <<update_queue, running, last_calculation, batches, now>>
    /\ LiveFrame

\* a second passes
ClockTick ==
    /\ now < MaxClock
    /\ now' = now + 1
    /\ UNCHANGED <<update_queue, running, last_calculation, tasks, batches>>
    /\ LiveFrame

LiveInit ==
    /\ CalcIdle /\ StoreIdle /\ FetchIdle /\ FlowIdle /\ RaceIdle
    /\ today = 0 /\ now = 0
    /\ update_queue = <<>> /\ running = FALSE /\ last_calculation = 0
    /\ tasks = NoTasks /\ batches = NoBatches

LiveNext ==
    \/ Start
    \/ \E market_hours \in BOOLEAN : HandleOptionTrade(market_hours)
    \/ WebsocketConnected
    \/ WebsocketError
    \/ WebsocketStopped
    \/ RunWebsocket
    \/ ProcessUpdates
    \/ Stop
    \/ Stopped
    \/ ClockTick

\* the event loop wakes a sleeping task after its delay
SpecLive ==
    /\ LiveInit
    /\ [][LiveNext]_vars
    /\ WF_vars(RunWebsocket)
    /\ WF_vars(ProcessUpdates)

\* a step in which the client delivers a trade; one in which a recalculation
\* takes a batch
TradeStep == batches'.ntrades = batches.ntrades + 1
RecalcStep == batches'.recalcs = batches.recalcs + 1

TradeData(n) == [option |-> Trade(n).symbol, price |-> Trade(n).price,
                 size |-> Trade(n).size, timestamp |-> Trade(n).timestamp]

Min(a, b) == IF a < b THEN a ELSE b

\* the queue never holds more than MAX_QUEUE_SIZE updates, and holds them in
\* the order they arrived
QueueBounded ==
    /\ Len(update_queue) <= MAX_QUEUE_SIZE
    /\ \A i, j \in 1..Len(update_queue) :
          i < j => update_queue[i].timestamp < update_queue[j].timestamp

\* a recalculation takes min(BATCH_SIZE, queue length) updates off the front,
\* in arrival order
BatchFromFront ==
    RecalcStep =>
        LET k == Min(BATCH_SIZE, Len(update_queue))
        IN  /\ batches'.last = SubSeq(update_queue, 1, k)
            /\ update_queue' = SubSeq(update_queue, k + 1, Len(update_queue))

\* C27 as stated: after any interleaving of trade arrivals and
\* recalculations the queue holds at most MAX_QUEUE_SIZE updates; a trade
\* arriving at a full queue drops the oldest queued update and keeps the new
\* one; and each recalculation removes min(BATCH_SIZE, queue length) updates
\* from the front in arrival order.
C27_DropOldestOnEveryArrival ==
    /\ []QueueBounded
    /\ [][/\ (TradeStep /\ Len(update_queue) = MAX_QUEUE_SIZE) =>
                update_queue' = Tail(update_queue) \o <<TradeData(batches'.ntrades)>>
          /\ BatchFromFront]_vars

\* C27 amended: the same, for a trade that arrives during market hours; a
\* trade that arrives outside market hours is discarded and leaves the queue
\* as it was.
C27_DropOldestInMarketHours ==
    /\ []QueueBounded
    /\ [][/\ (TradeStep /\ batches'.hours) =>
                update_queue' = (IF Len(update_queue) = MAX_QUEUE_SIZE
                                 THEN Tail(update_queue) ELSE update_queue)
                                    \o <<TradeData(batches'.ntrades)>>
          /\ (TradeStep /\ ~batches'.hours) => update_queue' = update_queue
          /\ BatchFromFront]_vars

\* more trades than the queue holds have arrived in market hours before any
\* recalculation, and the last of them is at the back of the full queue
C27_Witness ==
    /\ batches.recalcs = 0
    /\ batches.accepted > MAX_QUEUE_SIZE
    /\ batches.hours
    /\ Len(update_queue) = MAX_QUEUE_SIZE
    /\ update_queue[MAX_QUEUE_SIZE].timestamp = batches.ntrades

\* C28: once stop() has cleared the flag, by a direct call or after a
\* WebSocket error, the consumer loop and the loop of _run_websocket are
\* eventually left; no recalculation starts once the flag is cleared, and a
\* recalculation that started takes its whole batch.
C28_StopEndsTheLoops ==
    /\ batches.flagged ~> (tasks.proc = "done" /\ tasks.ws # "loop")
    /\ [][RecalcStep =>
             /\ running
             /\ Len(batches'.last) = Min(BATCH_SIZE, Len(update_queue))]_vars

\* the flag was cleared after a recalculation and with updates still queued,
\* and both tasks have ended
C28_Witness ==
    /\ batches.flagged
    /\ batches.recalcs > 0
    /\ update_queue # <<>>
    /\ tasks.proc = "done" /\ tasks.ws = "done"

-----------------------------------------------------------------------------
(* data/fetcher.py: get_option_data called by several callers at once (two   *)
(* runs of the program for one ticker, or two threads).  The cache file is   *)
(* the only thing they share; nothing in the module locks it, and            *)
(* _save_to_cache writes it in place.  A step is one file operation.         *)

\* two that fetch and one that reads while they write
Callers == {"a", "b", "c"}

\* the text of the cache file, cut into the pieces json.dump hands to the
\* file and the file's buffer hands to the system, one piece per value
NulPiece == [tok |-> "nul"]
EndPiece == [tok |-> "end"]

\* json.dump(cache_data, f): the pieces of the text, in order
Dump(obj) ==
    <<[tok |-> "timestamp", val |-> obj.timestamp],
      [tok |-> "spot_price", val |-> obj.spot_price]>>
    \o [i \in 1..Len(obj.option_data) |-> [tok |-> "record", val |-> obj.option_data[i]]]
    \o <<EndPiece>>

\* json.load(f) on a text: the object, when the text is one whole object and
\* nothing else; whose pieces they were makes no difference to the parser
WellFormed(text) ==
    /\ Len(text) >= 3
    /\ text[1].tok = "timestamp" /\ text[2].tok = "spot_price"
    /\ text[Len(text)] = EndPiece
    /\ \A i \in 3..(Len(text) - 1) : text[i].tok = "record"

Parse(text) ==
    IF WellFormed(text)
    THEN [kind |-> "json",
          obj |-> [timestamp |-> text[1].val, spot_price |-> text[2].val,
                   option_data |-> [i \in 1..(Len(text) - 3) |-> text[i + 2].val]]]
    ELSE [kind |-> "garbage"]

\* what _load_from_cache finds: no file, or the text the file holds now
FileRead(file) == IF file.kind = "text" THEN Parse(file.text) ELSE file

\* open(cache_file, 'w'): the file exists and is empty
OpenW == [kind |-> "text", text |-> <<>>]

\* f.write of one piece at the writer's own offset: the file grows, with a
\* hole of NULs in front of the piece when another open() has emptied it
WriteAt(text, pos, piece) ==
    [i \in 1..(IF pos > Len(text) THEN pos ELSE Len(text)) |->
        IF i = pos THEN piece
        ELSE IF i <= Len(text) THEN text[i] ELSE NulPiece]

\* the object _save_to_cache builds at lines 35-43
CacheData(t, spot, df) == save_to_cache([kind |-> "absent"], t, spot, df).file.obj

NoCall == [pc |-> "idle", out |-> "", source |-> "", spot |-> 0,
           frame |-> Frame({}, <<>>), text |-> <<>>, pos |-> 0]

RaceFrame ==
    UNCHANGED <<calcVars, timeVars, storeVars, fetch_op, flowVars, liveVars>>

\* lines 89-92: _load_from_cache, and the return of a snapshot it gave
LoadFromCache(c) ==
    /\ callers[c].pc = "idle"
    /\ \E r \in {load_from_cache(FileRead(cache_file), now)} :
          callers' = [callers EXCEPT ![c] =
                         IF r.kind = "data"
                         THEN [@ EXCEPT !.pc = "done", !.out = "returned",
                                        !.source = "cache", !.spot = r.spot,
                                        !.frame = r.frame]
                         ELSE [@ EXCEPT !.pc = "fetch"]]
    /\ UNCHANGED cache_file
    /\ RaceFrame

\* lines 97-106 and 113-115: the provider is asked and its answer validated
FetchFresh(c, resp) ==
    /\ callers[c].pc = "fetch"
    /\ callers' = [callers EXCEPT ![c] =
                      IF \/ resp.kind = "error"
                         \/ resp.frame.rows = <<>>
                         \/ RequiredColumns \ resp.frame.cols # {}
                      THEN [@ EXCEPT !.pc = "done", !.out = "raised",
                                     !.source = "provider"]
                      ELSE [@ EXCEPT !.pc = "save", !.source = "provider",
                                     !.spot = resp.spot, !.frame = resp.frame]]
    /\ UNCHANGED cache_file
    /\ RaceFrame

\* lines 35-45: cache_data is built and the file opened for writing
SaveOpen(c) ==
    /\ callers[c].pc = "save"
    /\ cache_file' = OpenW
    /\ callers' = [callers EXCEPT ![c] =
                      [@ EXCEPT !.pc = "write", !.pos = 0,
                                !.text = Dump(CacheData(now, callers[c].spot,
                                                         callers[c].frame))]]
    /\ RaceFrame

\* line 46: the next piece reaches the file; after the last one the file is
\* closed and lines 48 and 111 return the fetched snapshot
SaveWrite(c) ==
    /\ callers[c].pc = "write"
    /\ cache_file.kind = "text"
    /\ cache_file' = [cache_file EXCEPT
                         !.text = WriteAt(@, callers[c].pos + 1,
                                          callers[c].text[callers[c].pos + 1])]
    /\ callers' = [callers EXCEPT ![c] =
                      IF @.pos + 1 = Len(@.text)
                      THEN [@ EXCEPT !.pc = "done", !.out = "returned", !.pos = @ + 1]
                      ELSE [@ EXCEPT !.pos = @ + 1]]
    /\ RaceFrame

\* what the provider may answer to a caller
RaceResponses == ProviderResponses

\* the entry the callers find: none, or one written more than CACHE_EXPIRY
\* seconds ago
ExpiredEntry ==
    [kind |-> "text",
     text |-> Dump(CacheData(0, 99, Frame(RequiredColumns, <<FetchCall>>)))]

RaceInit ==
    /\ CalcIdle /\ StoreIdle /\ FlowIdle /\ LiveIdle
    /\ today = 0 /\ now = CACHE_EXPIRY + 1
    /\ fetch_op = NoFetchOp
    /\ cache_file \in {[kind |-> "absent"], ExpiredEntry}
    /\ callers = [c \in Callers |-> NoCall]

RaceNext ==
    \E c \in Callers :
        \/ LoadFromCache(c)
        \/ \E resp \in RaceResponses : FetchFresh(c, resp)
        \/ SaveOpen(c)
        \/ SaveWrite(c)

SpecRace == RaceInit /\ [][RaceNext]_vars

-----------------------------------------------------------------------------
(* Claims about concurrent callers *)

\* the texts the fetches of this run wrote or are writing
FetchTexts == {callers[c].text : c \in {d \in Callers : callers[d].text # <<>>}}

\* the snapshot a reader gets from a complete text
SnapshotOf(text) ==
    [spot |-> load_from_cache(Parse(text), now).spot,
     frame |-> load_from_cache(Parse(text), now).frame]

\* C29: with two or more calls interleaved against an expired or missing entry, a
\* caller that returns from the cache returns the complete snapshot some
\* fetch wrote, never a partially written entry; and once every call has
\* finished and some fetch has saved, the file holds the complete snapshot
\* of one of the fetches.
C29_NoPartialCacheEntry ==
    /\ \A c \in Callers :
          (callers[c].pc = "done" /\ callers[c].source = "cache") =>
              \E text \in FetchTexts :
                  SnapshotOf(text) = [spot |-> callers[c].spot, frame |-> callers[c].frame]
    /\ ((\A c \in Callers : callers[c].pc = "done") /\ FetchTexts # {}) =>
          (cache_file.kind = "text" /\ cache_file.text \in FetchTexts)

=============================================================================
